---- MODULE Spec2Model ----
(***************************************************************************)
(* A state-machine model of the goose agent reply engine                   *)
(* (crates/goose/src/agents/agent.rs): the turn loop of                    *)
(* Agent::reply_internal, the tool dispatcher Agent::dispatch_tool_call,   *)
(* the tool-repetition monitor, the permission gate and the two host       *)
(* callbacks handle_confirmation and handle_tool_result.                   *)
(***************************************************************************)
EXTENDS Integers, Sequences, FiniteSets, TLC

\* ------------------------------------------------------------------ bounds
\* session.max_turns ranges over 1..MaxTurns
MaxTurns == 2
\* items one provider stream yields before it ends
MaxChunks == 2
\* tool requests in one assistant response
MaxReqs == 2
\* retry configuration: max_attempts ranges over 0..MaxAttempts (0: no retry config)
MaxAttempts == 1
\* max_repetitions ranges over 0..MaxRepetitions in the monitor specification
MaxRepetitions == 2
\* dispatch_tool_call invocations in the monitor specification
MaxCalls == 4

\* the longest content passed to todo_write in the scratchpad specification
MaxContentLen == 3
\* the value GOOSE_TODO_MAX_CHARS is set to, when it is set to a positive number
TodoCap == 2

\* the most system prompt extras added in the registry specification
MaxExtras == 2

\* the longest model id, in pieces, given to GcpVertexAIModel::try_from
MaxIdLen == 4
\* the notifications a tool sends during one call
MaxNotifs == 3
\* the retries one reply may make in the retry-state specification
MaxReplyRetries == 2
\* the largest retry_config.max_retries of the Vertex AI provider
MaxRetries == 2

\* ------------------------------------------------------------------ program constants
\* HTTP status codes the Vertex AI provider tells apart, and one it does not
STATUS_OK == 200
STATUS_UNAUTHORIZED == 401
STATUS_FORBIDDEN == 403
STATUS_TOO_MANY_REQUESTS == 429
STATUS_API_OVERLOADED == 529
STATUS_INTERNAL_SERVER_ERROR == 500
\* mpsc::channel(32) of the confirmation and tool-result channels
CHANNEL_CAPACITY == 32

CHAT_MODE_TOOL_SKIPPED_RESPONSE == "Tool calls are disabled in chat mode."
DECLINED_RESPONSE == "Declined by user."
REPETITION_ERROR == "Tool call rejected: exceeded maximum allowed repetitions"
FINAL_OUTPUT_MISSING_ERROR == "Final output tool not defined"
FRONTEND_REQUIRED_ERROR == "Frontend tool execution required"
MAX_TURNS_NOTICE == "I've reached the maximum number of actions I can do without user input. Would you like me to continue?"
CONTEXT_LENGTH_NOTICE == "The context length of the model has been exceeded. Please start a new session and try again."
PROVIDER_ERROR_NOTICE == "Ran into this error"
RETRY_ERROR_NOTICE == "Retry logic encountered an error"
FINAL_OUTPUT_CONTINUATION_MESSAGE == "final output continuation"
\* the notice the retry manager adds to the conversation when the attempts are used up
RETRY_EXHAUSTED_NOTICE == "maximum retry attempts exceeded"

\* tool names with a fixed sink in dispatch_tool_call
PLATFORM_MANAGE_SCHEDULE_TOOL_NAME == "platform_manage_schedule"
PLATFORM_MANAGE_EXTENSIONS_TOOL_NAME == "platform_manage_extensions"
FINAL_OUTPUT_TOOL_NAME == "final_output"
SUBAGENT_EXECUTE_TASK_TOOL_NAME == "subagent_execute_task"
DYNAMIC_TASK_TOOL_NAME_PREFIX == "dynamic_task_create"
PLATFORM_READ_RESOURCE_TOOL_NAME == "platform_read_resource"
PLATFORM_LIST_RESOURCES_TOOL_NAME == "platform_list_resources"
PLATFORM_SEARCH_AVAILABLE_EXTENSIONS_TOOL_NAME == "platform_search_available_extensions"
TODO_READ_TOOL_NAME == "todo_read"
TODO_WRITE_TOOL_NAME == "todo_write"
ROUTER_LLM_SEARCH_TOOL_NAME == "router_llm_search"

DEFAULT_MAX_TURNS == 1000
\* GOOSE_AUTO_COMPACT_THRESHOLD, default 0.8, in percent
AUTO_COMPACT_THRESHOLD == 80
\* GOOSE_TODO_MAX_CHARS, default
DEFAULT_TODO_MAX_CHARS == 50000

\* the marker of a tool request whose tool_call is Err (the call failed to parse)
PARSE_ERR == "<parse error>"
\* Option::None of max_repetitions
NoLimit == -1

\* ------------------------------------------------------------------ the environment of a reply
\* the frontend_tools map of the agent (one Frontend extension registered)
FrontendTools == {"ui__toast"}
\* tools served by the extension manager
ExtensionTools == {"fs__read", "fs__delete"}
\* the permissions file: tool name -> stored PermissionLevel
StoredPolicy(name) ==
    CASE name = "fs__delete" -> "NeverAllow"
      [] OTHER -> "None"
\* tools whose annotation is read-only (readonly_tools of categorize_tools)
ReadonlyTools == {"fs__read"}

\* what the provider may put in a tool request of a reply
ReplyCalls == ExtensionTools \cup FrontendTools \cup {FINAL_OUTPUT_TOOL_NAME, PARSE_ERR}
Modes == {"auto", "approve", "smart_approve", "chat"}

\* ------------------------------------------------------------------ state
VARIABLES
    \* the reply's context and the agent's fields
    goose_mode,            \* ReplyContext.goose_mode
    max_turns,             \* session.max_turns
    max_attempts,          \* retry configuration (0: none)
    attempts,              \* RetryManager attempts
    tool_monitor,          \* Agent.tool_monitor: [set, max, last, count]
    final_output_tool,     \* Agent.final_output_tool: "None" | "Unset" | "Set"
    cancelled,             \* the cancellation token
    confirmation_ch,       \* confirmation_tx/confirmation_rx
    tool_result_ch,        \* tool_result_tx/tool_result_rx
    \* the locals of reply_internal
    pc,
    turns_taken,
    chunk,                 \* items taken from the current provider stream
    added_message,
    messages_to_add,
    tools_updated,
    messages,              \* the conversation (message shapes)
    response,              \* the response being processed: its tool requests
    frontend_requests,
    remaining_requests,
    needs_approval,
    todo,                  \* requests the current sub-stream has still to announce
    message_tool_response,
    tool_futures,
    \* observation of the reply stream and of the calls made
    emitted,               \* the event the last step yielded (NoEvent: none)
    n_asst,                \* assistant Message events yielded so far, counted up to max_turns + 1
    provider_calls,        \* provider streams started
    provider_errored,      \* the provider stream yielded an Err in this reply
    dispatched,            \* dispatch_tool_call invocations for the current response
    posted,                \* confirmations the host posted for the current response
    context_usage,         \* estimated tokens of the history, in percent of the context limit
    turn_has_message,      \* an assistant Message was yielded in the current provider turn
    retry_result,          \* what handle_retry_logic returned last ("None": not called)
    \* the monitor specification: the sequence of calls made
    call_log,
    \* the scratchpad specification
    session,               \* dispatch_tool_call's session argument is Some
    todo_max_chars,        \* GOOSE_TODO_MAX_CHARS (NoLimit: unset)
    todo_content,          \* SessionMetadata.todo_content
    todo_result,           \* the result of the last scratchpad call
    \* the registry specification
    frontend_tools,        \* Agent.frontend_tools: the names registered
    extensions,            \* the extensions the extension manager holds
    prompt_extras,         \* PromptManager: the system prompt extras
    registry_result,       \* the last registry operation and its result
    \* the Vertex AI provider specification
    gcp,                   \* one GcpVertexAIProvider::post call: its locals and what it did
    \* the model id specification
    vertex_model,          \* a model id, the GcpVertexAIModel parsed from it and its printing
    \* the routing specification
    routed,                \* the sub-recipe tools registered and the last call dispatched
    \* the mode specification
    mode_env,              \* the session's execution_mode, GOOSE_MODE, and the mode a reply read
    \* the retry-state specification
    retry_replies,         \* two replies on one Agent: their position and the retries each made
    \* the tool-stream specification
    stream,                \* one tool_stream(rx, done): rx, done and the items yielded
    \* the mutex specification
    mutexes                \* the Agent's mutexes, a reply stream and its consumer

replyVars == <<goose_mode, max_turns, max_attempts, attempts, final_output_tool, cancelled,
               confirmation_ch, tool_result_ch, pc, turns_taken, chunk, added_message,
               messages_to_add, tools_updated, messages, response, frontend_requests,
               remaining_requests, needs_approval, todo, message_tool_response, tool_futures,
               emitted, n_asst, provider_calls, provider_errored, dispatched, posted,
               context_usage, turn_has_message, retry_result>>

todoVars == <<session, todo_max_chars, todo_content, todo_result>>
\* the state of the monitor and scratchpad specifications, which a reply leaves alone
registryVars == <<frontend_tools, extensions, prompt_extras, registry_result>>
sideVars == <<mode_env, retry_replies, stream, mutexes>>
auxVars == <<registryVars, gcp, vertex_model, routed, sideVars>>
otherVars == <<call_log, todoVars, auxVars>>
\* the observations only some steps of a reply change
ghostVars == <<context_usage, turn_has_message, retry_result>>

vars == <<replyVars, tool_monitor, otherVars>>

\* ------------------------------------------------------------------ values
Ok(text) == [ok |-> TRUE, text |-> text]
Err(text) == [ok |-> FALSE, text |-> text]

\* an AgentEvent, by its variant and, for a Message, its role and kind
NoEvent == [type |-> "None", role |-> "", kind |-> "", id |-> <<>>]
MessageEvent(role, kind) == [type |-> "Message", role |-> role, kind |-> kind, id |-> <<>>]
\* AgentEvent::HistoryReplaced, AgentEvent::ModelChange, AgentEvent::McpNotification((id, _))
HistoryReplacedEvent == [type |-> "HistoryReplaced", role |-> "", kind |-> "", id |-> <<>>]
ModelChangeEvent == [type |-> "ModelChange", role |-> "", kind |-> "", id |-> <<>>]
McpNotificationEvent_untagged(request_id) ==
    [type |-> "McpNotification", role |-> "", kind |-> "", id |-> <<>>]
McpNotificationEvent(request_id) ==
    [type |-> "McpNotification", role |-> "", kind |-> "", id |-> request_id]

RECURSIVE SeqFilter(_, _)
SeqFilter(s, keep) ==
    IF s = <<>> THEN <<>>
    ELSE IF Head(s) \in keep THEN <<Head(s)>> \o SeqFilter(Tail(s), keep)
    ELSE SeqFilter(Tail(s), keep)

Range(s) == {s[i] : i \in 1..Len(s)}
Ids(s) == {s[i].id : i \in 1..Len(s)}

\* mcp_core ToolCall { name, arguments }
ToolCall(name, arguments) == [name |-> name, arguments |-> arguments]
NoCall == ToolCall("", "")
\* the arguments of every call the provider makes in the reply model
ReplyArgs == "{}"

\* ------------------------------------------------------------------ tool-repetition monitor
\* ToolMonitor::new(max_repetitions)
NewToolMonitor(max_repetitions) ==
    [set |-> TRUE, max |-> max_repetitions, last |-> NoCall, count |-> 0]
\* Agent::new: tool_monitor is None
NoToolMonitor == [set |-> FALSE, max |-> NoLimit, last |-> NoCall, count |-> 0]

\* ToolMonitor::check_tool_call: count consecutive identical calls, reject above the limit
check_tool_call(mon, call) ==
    LET count == IF mon.last = call THEN mon.count + 1 ELSE 1
    IN [allowed |-> (mon.max = NoLimit \/ count <= mon.max),
        monitor |-> [mon EXCEPT !.last = call, !.count = count]]

\* RetryManager: reset of the tool monitor before a retry
reset_tool_monitor(mon) == [mon EXCEPT !.last = NoCall, !.count = 0]

\* ------------------------------------------------------------------ tool dispatcher
\* the chain of name tests of dispatch_tool_call, in the order of the code, on an agent
\* with the given frontend tools and sub-recipe tools registered
route(name, registered, sub_recipe_tools) ==
    IF name = PLATFORM_MANAGE_SCHEDULE_TOOL_NAME THEN "scheduler"
    ELSE IF name = PLATFORM_MANAGE_EXTENSIONS_TOOL_NAME THEN "manage_extensions"
    ELSE IF name = FINAL_OUTPUT_TOOL_NAME THEN "final_output"
    ELSE IF name \in sub_recipe_tools THEN "sub_recipe"
    ELSE IF name = SUBAGENT_EXECUTE_TASK_TOOL_NAME THEN "subagent"
    ELSE IF name = DYNAMIC_TASK_TOOL_NAME_PREFIX THEN "dynamic_task"
    ELSE IF name = PLATFORM_READ_RESOURCE_TOOL_NAME THEN "read_resource"
    ELSE IF name = PLATFORM_LIST_RESOURCES_TOOL_NAME THEN "list_resources"
    ELSE IF name = PLATFORM_SEARCH_AVAILABLE_EXTENSIONS_TOOL_NAME THEN "search_extensions"
    ELSE IF name \in registered THEN "frontend"
    ELSE IF name = TODO_READ_TOOL_NAME THEN "todo_read"
    ELSE IF name = TODO_WRITE_TOOL_NAME THEN "todo_write"
    ELSE IF name = ROUTER_LLM_SEARCH_TOOL_NAME THEN "router_search"
    ELSE "extension_manager"

\* the chain on the agent of the reply model, whose frontend tools are FrontendTools
Sink(name, sub_recipe_tools) == route(name, FrontendTools, sub_recipe_tools)

\* the result of the sink is returned by the last expression of dispatch_tool_call, which
\* maps process_tool_response over it; the scheduler, extension-management and final-output
\* branches, a monitor rejection and a failed router search return before it
large_response_handled(sink, router_ok) ==
    /\ sink \notin {"rejected", "scheduler", "manage_extensions", "final_output"}
    /\ sink = "router_search" => router_ok

\* the sub-recipe tools registered on the agent of the reply model
SubRecipeTools == {}

\* the result of one dispatch_tool_call: the new monitor and final-output tool, the sink
\* reached ("rejected": none), whether the returned Result is Ok (a ToolCallResult) or Err,
\* and the tool result when it is known at return (ready) rather than produced later by
\* the sink
Dispatched(mon, fot, sink, outer_ok, ready, result) ==
    [monitor |-> mon, fot |-> fot, sink |-> sink, outer_ok |-> outer_ok,
     ready |-> ready, result |-> result]
Pending == Err("<pending>")

\* a dispatcher that consults the monitor and ignores its verdict
dispatch_tool_call_unchecked(mon, fot, call) ==
    LET chk == IF mon.set THEN check_tool_call(mon, call)
               ELSE [allowed |-> TRUE, monitor |-> mon]
        sink == Sink(call.name, SubRecipeTools)
    IN IF sink = "final_output"
       THEN IF fot = "None"
            THEN Dispatched(chk.monitor, fot, sink, FALSE, TRUE, Err(FINAL_OUTPUT_MISSING_ERROR))
            ELSE Dispatched(chk.monitor, "Set", sink, TRUE, TRUE, Ok("final output recorded"))
       ELSE IF sink = "frontend"
       THEN Dispatched(chk.monitor, fot, sink, TRUE, TRUE, Err(FRONTEND_REQUIRED_ERROR))
       ELSE Dispatched(chk.monitor, fot, sink, TRUE, FALSE, Pending)

\* Agent::dispatch_tool_call
dispatch_tool_call(mon, fot, call) ==
    LET chk == IF mon.set THEN check_tool_call(mon, call)
               ELSE [allowed |-> TRUE, monitor |-> mon]
        sink == Sink(call.name, SubRecipeTools)
    IN IF ~chk.allowed
       THEN Dispatched(chk.monitor, fot, "rejected", FALSE, TRUE, Err(REPETITION_ERROR))
       ELSE IF sink = "final_output"
       THEN IF fot = "None"
            THEN Dispatched(chk.monitor, fot, sink, FALSE, TRUE, Err(FINAL_OUTPUT_MISSING_ERROR))
            ELSE Dispatched(chk.monitor, "Set", sink, TRUE, TRUE, Ok("final output recorded"))
       ELSE IF sink = "frontend"
       THEN Dispatched(chk.monitor, fot, sink, TRUE, TRUE, Err(FRONTEND_REQUIRED_ERROR))
       ELSE Dispatched(chk.monitor, fot, sink, TRUE, FALSE, Pending)

\* ------------------------------------------------------------------ permission gate
\* check_tool_permissions: the list a request is put in ("none": in no list)
Classify(req, mode) ==
    IF req.call = PARSE_ERR THEN "none"
    ELSE IF mode = "chat" THEN "none"
    ELSE IF mode = "auto" THEN "approved"
    ELSE IF StoredPolicy(req.call) = "AlwaysAllow" THEN "approved"
    ELSE IF StoredPolicy(req.call) = "NeverAllow" THEN "denied"
    ELSE IF mode = "smart_approve" /\ req.call \in ReadonlyTools THEN "approved"
    ELSE "needs_approval"

RECURSIVE SelectClass(_, _, _)
SelectClass(reqs, mode, class) ==
    IF reqs = <<>> THEN <<>>
    ELSE IF Classify(Head(reqs), mode) = class
         THEN <<Head(reqs)>> \o SelectClass(Tail(reqs), mode, class)
         ELSE SelectClass(Tail(reqs), mode, class)

\* PermissionCheckResult { approved, needs_approval, denied }
check_tool_permissions(reqs, mode) ==
    [approved |-> SelectClass(reqs, mode, "approved"),
     needs_approval |-> SelectClass(reqs, mode, "needs_approval"),
     denied |-> SelectClass(reqs, mode, "denied")]

\* Message::with_tool_response(id, result)
with_tool_response(msg, id, result) == Append(msg, [id |-> id, result |-> result])

RECURSIVE RespondAll(_, _, _)
RespondAll(msg, reqs, result) ==
    IF reqs = <<>> THEN msg
    ELSE RespondAll(with_tool_response(msg, Head(reqs).id, result), Tail(reqs), result)

\* one entry of tool_futures: the stream tool_stream(notifications, result) of a request
ToolFuture(id, d) == [id |-> id, ready |-> d.ready, result |-> d.result]
\* one dispatch_tool_call invocation, as observed
Invocation(id, call, d) == [id |-> id, call |-> call, sink |-> d.sink, outer_ok |-> d.outer_ok,
                            ready |-> d.ready, result |-> d.result]

\* the loop over permission_check_result.approved of handle_approved_and_denied_tools:
\* every request whose tool_call is Ok is dispatched, and an Err return of
\* dispatch_tool_call becomes a stream that yields that Err as its result
RECURSIVE DispatchApproved(_, _)
DispatchApproved(reqs, acc) ==
    IF reqs = <<>> THEN acc
    ELSE LET r == Head(reqs) IN
         IF r.call = PARSE_ERR THEN DispatchApproved(Tail(reqs), acc)
         ELSE LET d == dispatch_tool_call(acc.monitor, acc.fot, ToolCall(r.call, ReplyArgs))
              IN DispatchApproved(Tail(reqs),
                    [monitor |-> d.monitor, fot |-> d.fot,
                     futures |-> Append(acc.futures, ToolFuture(r.id, d)),
                     invoked |-> Append(acc.invoked, Invocation(r.id, r.call, d))])

\* a handler that drops the stream of a call whose dispatch returned Err
handle_approved_and_denied_tools_dropping(perm, msg, mon, fot) ==
    LET a == DispatchApproved(perm.approved,
                 [monitor |-> mon, fot |-> fot, futures |-> <<>>, invoked |-> <<>>])
    IN [monitor |-> a.monitor, fot |-> a.fot,
        futures |-> SeqFilter(a.futures, {f \in Range(a.futures) : ~f.ready \/ f.result.ok}),
        invoked |-> a.invoked,
        message |-> RespondAll(msg, perm.denied, Ok(DECLINED_RESPONSE))]

\* a handler that dispatches only the first approved request
handle_approved_and_denied_tools_first_only(perm, msg, mon, fot) ==
    LET a == DispatchApproved(IF perm.approved = <<>> THEN <<>> ELSE <<Head(perm.approved)>>,
                 [monitor |-> mon, fot |-> fot, futures |-> <<>>, invoked |-> <<>>])
    IN [monitor |-> a.monitor, fot |-> a.fot, futures |-> a.futures, invoked |-> a.invoked,
        message |-> RespondAll(msg, perm.denied, Ok(DECLINED_RESPONSE))]

\* a handler that dispatches the denied requests after the approved ones
handle_approved_and_denied_tools_running_denied(perm, msg, mon, fot) ==
    LET a == DispatchApproved(perm.approved \o perm.denied,
                 [monitor |-> mon, fot |-> fot, futures |-> <<>>, invoked |-> <<>>])
    IN [monitor |-> a.monitor, fot |-> a.fot, futures |-> a.futures, invoked |-> a.invoked,
        message |-> msg]

\* Agent::handle_approved_and_denied_tools
handle_approved_and_denied_tools(perm, msg, mon, fot) ==
    LET a == DispatchApproved(perm.approved,
                 [monitor |-> mon, fot |-> fot, futures |-> <<>>, invoked |-> <<>>])
    IN [monitor |-> a.monitor, fot |-> a.fot, futures |-> a.futures, invoked |-> a.invoked,
        message |-> RespondAll(msg, perm.denied, Ok(DECLINED_RESPONSE))]

\* ------------------------------------------------------------------ the reply stream
\* yield AgentEvent::Message(..)
Yield(ev) ==
    /\ emitted' = ev
    /\ n_asst' = IF ev.role = "assistant" /\ n_asst <= max_turns THEN n_asst + 1 ELSE n_asst
\* a step that yields nothing
NoYield ==
    /\ emitted' = NoEvent
    /\ UNCHANGED n_asst

\* a message of the conversation, kept by its role and kind
Shape(role, kind) == [role |-> role, kind |-> kind]
InitialMessages == <<Shape("user", "text")>>

\* categorize_tool_requests: frontend requests, the other requests (a request that failed
\* to parse is one of them), and the response without its frontend requests
RECURSIVE SelectRequests(_, _)
SelectRequests(reqs, frontend) ==
    IF reqs = <<>> THEN <<>>
    ELSE IF (Head(reqs).call \in FrontendTools) = frontend
         THEN <<Head(reqs)>> \o SelectRequests(Tail(reqs), frontend)
         ELSE SelectRequests(Tail(reqs), frontend)
categorize_tool_requests(reqs) ==
    [frontend_requests |-> SelectRequests(reqs, TRUE),
     remaining_requests |-> SelectRequests(reqs, FALSE),
     filtered_response |-> SelectRequests(reqs, FALSE)]

\* the history a reply is started with: below and above the auto-compaction threshold
ContextUsages == {50, 90}

\* the result of a scratchpad call, with the call: Ok with its text content, or Err with
\* the kind of the error
TodoResult(name, arg, ok, kind, content) ==
    [name |-> name, arg |-> arg, ok |-> ok, kind |-> kind, content |-> content]
\* the scratchpad is not in use
IdleScratchpad ==
    /\ session = FALSE
    /\ todo_max_chars = NoLimit
    /\ todo_content = <<>>
    /\ todo_result = TodoResult("none", <<>>, TRUE, "none", <<>>)

\* the routing specification before a call: no sub-recipe tool, nothing dispatched
NoRouting == [pc |-> "idle", sub_recipe_tools |-> {}, name |-> "", sink |-> "",
              large_response_handled |-> FALSE,
              frontend_at_call |-> {}, sub_recipe_at_call |-> {}]

\* a model id before it is parsed; an id is the sequence of its pieces
VertexModel(id) == [pc |-> "id", id |-> id, parsed |-> [ok |-> FALSE], printed |-> <<>>]

\* a post call of the Vertex AI provider before it starts: the provider's configuration
\* (max_retries, whether self.location is the model's known location), the locals of
\* post and post_with_location, and what was observed of the call (requests sent, the
\* status and the body of the last response, the backoff waits)
GcpCall(max_retries, at_known_location) ==
    [pc |-> "post", max_retries |-> max_retries, at_known_location |-> at_known_location,
     call |-> 1, rate_limit_attempts |-> 0, overloaded_attempts |-> 0, last_error |-> "None",
     result |-> "None", sent |-> 0, last_status |-> 0, last_body_json |-> TRUE,
     waits |-> <<>>, cause |-> "none", first_result |-> "None", first_status |-> 0]
IdleGcp == [GcpCall(0, TRUE) EXCEPT !.pc = "idle"]

\* no reply was started: the mode, retry-state, tool-stream and mutex specifications at rest
NoModeEnv == [pc |-> "idle", execution_mode |-> "None", config_mode |-> "unset",
              config_at_start |-> "unset", used |-> ""]
NoReplies == [i \in 1..2 |-> [pc |-> "idle", made |-> 0]]
NoStream == [pc |-> "none", rx |-> <<>>, rx_open |-> FALSE, arrived |-> 0,
             done_ready |-> FALSE, result |-> "", out |-> <<>>, dropped |-> <<>>,
             rx_ended |-> FALSE]
NoMutexes == [reply |-> "idle", held |-> {}, final_output_tool |-> "None", turns_taken |-> 0,
              consumer |-> "polling", call |-> "", consumer_held |-> {}, waits_for |-> "",
              last_call |-> ""]
IdleSide ==
    /\ mode_env = NoModeEnv
    /\ retry_replies = NoReplies
    /\ stream = NoStream
    /\ mutexes = NoMutexes

\* the registry is as Agent::new leaves it and no operation was made on it
RegistryResult(op, name, ok) == [op |-> op, name |-> name, ok |-> ok]
IdleAux ==
    /\ frontend_tools = {}
    /\ extensions = {}
    /\ prompt_extras = <<>>
    /\ registry_result = RegistryResult("none", "", TRUE)
    /\ gcp = IdleGcp
    /\ vertex_model = VertexModel(<<>>)
    /\ routed = NoRouting
    /\ IdleSide

\* max_turns of a reply: the session's, else GOOSE_MAX_TURNS, else the default (NoLimit
\* stands for a value that is not set)
resolve_max_turns(session_max_turns, env_max_turns) ==
    IF session_max_turns # NoLimit THEN session_max_turns
    ELSE IF env_max_turns # NoLimit THEN env_max_turns
    ELSE DEFAULT_MAX_TURNS

\* the agents a reply is started on: one without optional parts, one with each of the
\* tool monitor (configure_tool_monitor(Some(1))), a retry configuration and a
\* final-output tool (add_final_output_tool), and one with the last two together
AgentSetups == {"plain", "monitor", "retry", "final_output", "final_output_retry"}

Init ==
    /\ goose_mode \in Modes
    /\ \E session_max_turns \in {NoLimit} \cup 1..MaxTurns :
       \E env_max_turns \in {NoLimit} \cup 1..MaxTurns :
         /\ session_max_turns # NoLimit \/ env_max_turns # NoLimit
         /\ max_turns = resolve_max_turns(session_max_turns, env_max_turns)
    /\ \E setup \in AgentSetups :
         /\ tool_monitor = IF setup = "monitor" THEN NewToolMonitor(1) ELSE NoToolMonitor
         /\ max_attempts \in IF setup \in {"retry", "final_output_retry"}
                              THEN 1..MaxAttempts ELSE {0}
         /\ final_output_tool = IF setup \in {"final_output", "final_output_retry"}
                                THEN "Unset" ELSE "None"
    /\ attempts = 0
    /\ cancelled = FALSE
    /\ confirmation_ch = <<>>
    /\ tool_result_ch = <<>>
    /\ pc = "reply"
    /\ turns_taken = 0
    /\ chunk = 0
    /\ added_message = FALSE
    /\ messages_to_add = <<>>
    /\ tools_updated = FALSE
    /\ messages = InitialMessages
    /\ response = <<>>
    /\ frontend_requests = <<>>
    /\ remaining_requests = <<>>
    /\ needs_approval = <<>>
    /\ todo = <<>>
    /\ message_tool_response = <<>>
    /\ tool_futures = <<>>
    /\ emitted = NoEvent
    /\ n_asst = 0
    /\ provider_calls = 0
    /\ provider_errored = FALSE
    /\ dispatched = <<>>
    /\ posted = {}
    /\ context_usage \in ContextUsages
    /\ turn_has_message = FALSE
    /\ retry_result = "None"
    /\ call_log = <<>>
    /\ IdleScratchpad
    /\ IdleAux

agentVars == <<tool_monitor, final_output_tool>>
configVars == <<goose_mode, max_turns, max_attempts>>
channelVars == <<confirmation_ch, tool_result_ch>>
turnVars == <<response, frontend_requests, remaining_requests, needs_approval, todo,
              message_tool_response, tool_futures, dispatched, posted>>
loopVars == <<turns_taken, chunk, added_message, messages_to_add, tools_updated, messages>>

\* the locals of one pass of the `while let` body go out of scope
ClearTurn ==
    /\ response' = <<>>
    /\ frontend_requests' = <<>>
    /\ remaining_requests' = <<>>
    /\ needs_approval' = <<>>
    /\ todo' = <<>>
    /\ message_tool_response' = <<>>
    /\ tool_futures' = <<>>
    /\ dispatched' = <<>>
    /\ posted' = {}

\* the caller fires the cancellation token
Cancel ==
    /\ pc # "done"
    /\ ~cancelled
    /\ cancelled' = TRUE
    /\ NoYield
    /\ UNCHANGED <<configVars, attempts, agentVars, channelVars, pc, loopVars, turnVars,
                   provider_calls, provider_errored, otherVars, ghostVars>>

\* a budget test that lets one turn too many pass
TurnBudgetExceeded_late(taken, max) == taken > max + 1

\* auto_compact::check_and_compact_messages: the history is compacted when its estimated
\* tokens exceed the threshold share of the context limit
should_compact(usage) == usage > AUTO_COMPACT_THRESHOLD
\* the compacted history has strictly fewer tokens
compacted_usage(usage) == usage \div 2

\* the two events of a compacted reply, with the history replacement first
CompactionEvents_swapped ==
    <<HistoryReplacedEvent, MessageEvent("assistant", "summarization_requested")>>

\* the two events Agent::reply yields, in this order, before a compacted reply goes on
CompactionEvents ==
    <<MessageEvent("assistant", "summarization_requested"), HistoryReplacedEvent>>

\* Agent::reply: handle_auto_compaction; a compacted history is announced by the
\* summarization message, otherwise reply_internal starts at once
ReplyStart ==
    /\ pc = "reply"
    /\ IF should_compact(context_usage)
       THEN /\ Yield(CompactionEvents[1])
            /\ pc' = "compacted"
       ELSE /\ NoYield
            /\ pc' = "loop"
    /\ UNCHANGED <<configVars, attempts, agentVars, cancelled, channelVars, loopVars, turnVars,
                   provider_calls, provider_errored, otherVars, ghostVars>>

\* Agent::reply: the second event of a compacted reply, then reply_internal
HistoryReplaced ==
    /\ pc = "compacted"
    /\ Yield(CompactionEvents[2])
    /\ context_usage' = compacted_usage(context_usage)
    /\ pc' = "loop"
    /\ UNCHANGED <<configVars, attempts, agentVars, cancelled, channelVars, loopVars, turnVars,
                   provider_calls, provider_errored, otherVars, turn_has_message,
                   retry_result>>

\* final_output_tool.final_output.is_some()
FinalOutputReady_never(fot) == FALSE
FinalOutputReady(fot) == fot = "Set"

\* `turns_taken > max_turns`, tested after turns_taken was incremented
TurnBudgetExceeded(taken, max) == taken > max

\* a loop top that tests the turn budget before the final output
LoopTop_budget_first ==
    /\ pc = "loop"
    /\ IF cancelled
       THEN /\ pc' = "done"
            /\ NoYield
            /\ UNCHANGED <<loopVars, provider_calls>>
       ELSE IF TurnBudgetExceeded(turns_taken + 1, max_turns)
       THEN /\ Yield(MessageEvent("assistant", MAX_TURNS_NOTICE))
            /\ turns_taken' = turns_taken + 1
            /\ pc' = "done"
            /\ UNCHANGED <<chunk, added_message, messages_to_add, tools_updated, messages,
                           provider_calls>>
       ELSE IF FinalOutputReady(final_output_tool)
       THEN /\ Yield(MessageEvent("assistant", "final_output"))
            /\ pc' = "done"
            /\ UNCHANGED <<loopVars, provider_calls>>
       ELSE /\ turns_taken' = turns_taken + 1
            /\ provider_calls' = provider_calls + 1
            /\ chunk' = 0
            /\ added_message' = FALSE
            /\ messages_to_add' = <<>>
            /\ tools_updated' = FALSE
            /\ pc' = "stream"
            /\ NoYield
            /\ UNCHANGED messages
    /\ UNCHANGED <<configVars, attempts, agentVars, cancelled, channelVars, turnVars,
                   provider_errored, otherVars, ghostVars>>

\* the top of `loop`: the three exit tests, then the provider call
LoopTop ==
    /\ pc = "loop"
    /\ IF cancelled
       THEN /\ pc' = "done"
            /\ NoYield
            /\ UNCHANGED <<loopVars, provider_calls>>
       ELSE IF FinalOutputReady(final_output_tool)
       THEN /\ Yield(MessageEvent("assistant", "final_output"))
            /\ pc' = "done"
            /\ UNCHANGED <<loopVars, provider_calls>>
       ELSE IF TurnBudgetExceeded(turns_taken + 1, max_turns)
       THEN /\ Yield(MessageEvent("assistant", MAX_TURNS_NOTICE))
            /\ turns_taken' = turns_taken + 1
            /\ pc' = "done"
            /\ UNCHANGED <<chunk, added_message, messages_to_add, tools_updated, messages,
                           provider_calls>>
       ELSE /\ turns_taken' = turns_taken + 1
            /\ provider_calls' = provider_calls + 1
            /\ chunk' = 0
            /\ added_message' = FALSE
            /\ messages_to_add' = <<>>
            /\ tools_updated' = FALSE
            /\ pc' = "stream"
            /\ NoYield
            /\ UNCHANGED messages
    /\ UNCHANGED <<configVars, attempts, agentVars, cancelled, channelVars, turnVars,
                   provider_errored, otherVars, ghostVars>>

\* stream.next() is None: the provider stream ended
ProviderStreamEnds ==
    /\ pc = "stream"
    /\ pc' = "after_stream"
    /\ NoYield
    /\ turn_has_message' = FALSE
    /\ UNCHANGED <<turnVars, configVars, attempts, agentVars, cancelled, channelVars, loopVars,
                   provider_calls, provider_errored, otherVars, context_usage, retry_result>>

\* stream.next() is an item, and the token is cancelled: break
ProviderItemCancelled ==
    /\ pc = "stream"
    /\ chunk < MaxChunks
    /\ cancelled
    /\ chunk' = chunk + 1
    /\ pc' = "after_stream"
    /\ NoYield
    /\ turn_has_message' = FALSE
    /\ UNCHANGED <<turnVars, configVars, attempts, agentVars, cancelled, channelVars, turns_taken,
                   added_message, messages_to_add, tools_updated, messages,
                   provider_calls, provider_errored, otherVars, context_usage, retry_result>>

\* the item is Ok((_, Some(usage))) and the provider is a lead-worker provider: the model
\* that produced the item is announced before the item's response is handled
ProviderYieldsModelChange ==
    /\ pc = "stream"
    /\ chunk < MaxChunks
    /\ ~cancelled
    /\ emitted' = ModelChangeEvent
    /\ pc' = "item"
    /\ UNCHANGED <<turnVars, configVars, attempts, agentVars, cancelled, channelVars, loopVars,
                   n_asst, provider_calls, provider_errored, otherVars, ghostVars>>

\* the item is Ok((None, _)): no message is emitted
ProviderYieldsUsage ==
    /\ \/ pc = "stream" /\ ~cancelled
       \/ pc = "item"
    /\ chunk < MaxChunks
    /\ chunk' = chunk + 1
    /\ pc' = "stream"
    /\ NoYield
    /\ UNCHANGED <<turnVars, configVars, attempts, agentVars, cancelled, channelVars, turns_taken,
                   added_message, messages_to_add, tools_updated, messages,
                   provider_calls, provider_errored, otherVars, ghostVars>>

\* the item is Ok((Some(response), usage)): the filtered response is emitted; a response
\* with tool requests starts the fan-out
ProviderYieldsResponse ==
    /\ \/ pc = "stream" /\ ~cancelled
       \/ pc = "item"
    /\ chunk < MaxChunks
    /\ \E n \in 0..MaxReqs : \E calls \in [1..n -> ReplyCalls] :
         LET reqs == [i \in 1..n |-> [id |-> <<provider_calls, chunk + 1, i>>, call |-> calls[i]]]
             cat == categorize_tool_requests(reqs)
         IN /\ Yield(MessageEvent("assistant", "response"))
            /\ IF n = 0
               THEN /\ pc' = "stream"
                    /\ UNCHANGED turnVars
               ELSE /\ pc' = "frontend"
                    /\ response' = reqs
                    /\ frontend_requests' = cat.frontend_requests
                    /\ remaining_requests' = cat.remaining_requests
                    /\ todo' = cat.frontend_requests
                    /\ needs_approval' = <<>>
                    /\ message_tool_response' = <<>>
                    /\ tool_futures' = <<>>
                    /\ dispatched' = <<>>
                    /\ posted' = {}
    /\ chunk' = chunk + 1
    /\ turn_has_message' = TRUE
    /\ UNCHANGED <<configVars, attempts, agentVars, cancelled, channelVars, turns_taken,
                   added_message, messages_to_add, tools_updated, messages,
                   provider_calls, provider_errored, otherVars, context_usage, retry_result>>

\* the item is Err(ContextLengthExceeded) or another Err: a notice is emitted, break
ProviderYieldsError ==
    /\ pc = "stream"
    /\ chunk < MaxChunks
    /\ ~cancelled
    /\ \E notice \in {CONTEXT_LENGTH_NOTICE, PROVIDER_ERROR_NOTICE} :
         Yield(MessageEvent("assistant", notice))
    /\ provider_errored' = TRUE
    /\ turn_has_message' = FALSE
    /\ chunk' = chunk + 1
    /\ pc' = "after_stream"
    /\ UNCHANGED <<turnVars, configVars, attempts, agentVars, cancelled, channelVars, turns_taken,
                   added_message, messages_to_add, tools_updated, messages,
                   provider_calls, otherVars, context_usage, retry_result>>

\* ------------------------------------------------------------------ frontend tools
\* handle_frontend_tool_requests: a placeholder message for the next frontend request
FrontendAnnounce ==
    /\ pc = "frontend"
    /\ todo # <<>>
    /\ Yield(MessageEvent("user", "frontend_request"))
    /\ pc' = "frontend_wait"
    /\ UNCHANGED <<configVars, attempts, agentVars, cancelled, channelVars, loopVars,
                   turnVars, provider_calls, provider_errored, otherVars, ghostVars>>

\* handle_frontend_tool_requests: the result posted for the announced request is recorded
FrontendReceive ==
    /\ pc = "frontend_wait"
    /\ tool_result_ch # <<>>
    /\ LET m == Head(tool_result_ch)
       IN /\ tool_result_ch' = Tail(tool_result_ch)
          /\ IF m.id = Head(todo).id
             THEN /\ message_tool_response' =
                        with_tool_response(message_tool_response, m.id, m.result)
                  /\ todo' = Tail(todo)
                  /\ pc' = "frontend"
             ELSE UNCHANGED <<message_tool_response, todo, pc>>
    /\ NoYield
    /\ UNCHANGED <<configVars, attempts, agentVars, cancelled, confirmation_ch, loopVars,
                   response, frontend_requests, remaining_requests, needs_approval,
                   tool_futures, dispatched, posted, provider_calls,
                   provider_errored, otherVars, ghostVars>>

\* the results the host posts for a frontend tool
FrontendResults == {Ok("shown")}

\* a message that carries an error instead of the result the host posted
tool_result_message_losing(id, result) == [id |-> id, result |-> Err("lost")]

\* the message Agent::handle_tool_result sends on tool_result_tx
tool_result_message(id, result) == [id |-> id, result |-> result]

\* Agent::handle_tool_result, called by the host for a frontend request of the response,
\* the awaited one or another
HandleToolResult ==
    /\ pc = "frontend_wait"
    /\ Len(tool_result_ch) < CHANNEL_CAPACITY
    /\ tool_result_ch = <<>>
    /\ \E r \in Range(frontend_requests) : \E result \in FrontendResults :
         tool_result_ch' = Append(tool_result_ch, tool_result_message(r.id, result))
    /\ NoYield
    /\ UNCHANGED <<configVars, attempts, agentVars, cancelled, confirmation_ch, pc, loopVars,
                   turnVars, provider_calls, provider_errored, otherVars, ghostVars>>

\* ------------------------------------------------------------------ permission gate and dispatch
\* a frontend sub-stream that is left before it has yielded anything
frontend_tool_stream_ended_at_once(pending) == TRUE

\* `frontend_tool_stream.try_next().await?` is None: every frontend request was handled
frontend_tool_stream_ended(pending) == pending = <<>>

\* after the frontend sub-stream: chat mode answers every remaining request with the fixed
\* text; the other modes run check_tool_permissions and handle_approved_and_denied_tools
PermissionStep ==
    /\ pc = "frontend"
    /\ frontend_tool_stream_ended(todo)
    /\ IF goose_mode = "chat"
       THEN /\ message_tool_response' = RespondAll(message_tool_response, remaining_requests,
                                                   Ok(CHAT_MODE_TOOL_SKIPPED_RESPONSE))
            /\ pc' = "aggregate"
            /\ UNCHANGED <<agentVars, needs_approval, todo, tool_futures, dispatched>>
       ELSE LET perm == check_tool_permissions(remaining_requests, goose_mode)
                h == handle_approved_and_denied_tools(perm, message_tool_response,
                                                      tool_monitor, final_output_tool)
            IN /\ tool_monitor' = h.monitor
               /\ final_output_tool' = h.fot
               /\ tool_futures' = h.futures
               /\ dispatched' = h.invoked
               /\ message_tool_response' = h.message
               /\ needs_approval' = perm.needs_approval
               /\ todo' = perm.needs_approval
               /\ pc' = "approval"
    /\ NoYield
    /\ UNCHANGED <<configVars, attempts, cancelled, channelVars, loopVars, response,
                   frontend_requests, remaining_requests, posted, provider_calls,
                   provider_errored, otherVars, ghostVars>>

\* handle_approval_tool_requests: the confirmation request for the next needs_approval request
ApprovalAnnounce ==
    /\ pc = "approval"
    /\ todo # <<>>
    /\ Yield(MessageEvent("user", "confirmation_request"))
    /\ todo' = Tail(todo)
    /\ UNCHANGED <<configVars, attempts, agentVars, cancelled, channelVars, pc, loopVars,
                   response, frontend_requests, remaining_requests, needs_approval,
                   message_tool_response, tool_futures, dispatched, posted, provider_calls,
                   provider_errored, otherVars, ghostVars>>

RECURSIVE RemoveId(_, _)
RemoveId(reqs, id) ==
    IF reqs = <<>> THEN <<>>
    ELSE IF Head(reqs).id = id THEN Tail(reqs)
    ELSE <<Head(reqs)>> \o RemoveId(Tail(reqs), id)
RequestOf(reqs, id) == CHOOSE r \in Range(reqs) : r.id = id

\* PermissionConfirmation: does it allow the call
Allows(permission) == permission \in {"Once", "Session"}

\* handle_approval_tool_requests: a confirmation is received; the request it names is
\* dispatched when the confirmation allows it and answered as declined otherwise
ApprovalReceive ==
    /\ pc = "approval"
    /\ todo = <<>>
    /\ needs_approval # <<>>
    /\ confirmation_ch # <<>>
    /\ LET c == Head(confirmation_ch)
       IN /\ confirmation_ch' = Tail(confirmation_ch)
          /\ IF c.id \notin Ids(needs_approval)
             THEN UNCHANGED <<agentVars, needs_approval, message_tool_response, tool_futures,
                              dispatched>>
             ELSE LET r == RequestOf(needs_approval, c.id)
                      d == dispatch_tool_call(tool_monitor, final_output_tool,
                                              ToolCall(r.call, ReplyArgs))
                  IN /\ needs_approval' = RemoveId(needs_approval, c.id)
                     /\ IF Allows(c.permission)
                        THEN /\ tool_monitor' = d.monitor
                             /\ final_output_tool' = d.fot
                             /\ tool_futures' = Append(tool_futures, ToolFuture(r.id, d))
                             /\ dispatched' = Append(dispatched, Invocation(r.id, r.call, d))
                             /\ UNCHANGED message_tool_response
                        ELSE /\ message_tool_response' =
                                   with_tool_response(message_tool_response, r.id,
                                                      Err(DECLINED_RESPONSE))
                             /\ UNCHANGED <<agentVars, tool_futures, dispatched>>
    /\ NoYield
    /\ UNCHANGED <<configVars, attempts, cancelled, tool_result_ch, pc, loopVars, response,
                   frontend_requests, remaining_requests, todo, posted, provider_calls, provider_errored, otherVars, ghostVars>>

\* the answers the host gives to a confirmation request
Confirmations == {"Once", "Never"}

\* a confirmation message that allows the call whatever the host answered
confirmation_message_allowing(request_id, confirmation) ==
    [id |-> request_id, permission |-> "Once"]

\* a confirmation message that names no request
confirmation_message_misaddressed(request_id, confirmation) ==
    [id |-> <<>>, permission |-> confirmation]

\* the message Agent::handle_confirmation sends on confirmation_tx
confirmation_message(request_id, confirmation) ==
    [id |-> request_id, permission |-> confirmation]

\* Agent::handle_confirmation, called by the host for a request that waits for approval
HandleConfirmation ==
    /\ pc = "approval"
    /\ Len(confirmation_ch) < CHANNEL_CAPACITY
    /\ \E r \in Range(needs_approval) : \E confirmation \in Confirmations :
         /\ r.id \notin Ids(todo)
         /\ r.id \notin {p.id : p \in posted}
         /\ confirmation_ch' = Append(confirmation_ch, confirmation_message(r.id, confirmation))
         /\ posted' = posted \cup {[id |-> r.id, permission |-> confirmation]}
    /\ NoYield
    /\ UNCHANGED <<configVars, attempts, agentVars, cancelled, tool_result_ch, pc, loopVars,
                   response, frontend_requests, remaining_requests, needs_approval, todo,
                   message_tool_response, tool_futures, dispatched, provider_calls, provider_errored, otherVars, ghostVars>>

\* the approval sub-stream ended: the tool streams are merged with select_all
ApprovalDone ==
    /\ pc = "approval"
    /\ todo = <<>>
    /\ needs_approval = <<>>
    /\ pc' = "combined"
    /\ NoYield
    /\ UNCHANGED <<configVars, attempts, agentVars, cancelled, channelVars, loopVars,
                   turnVars, provider_calls, provider_errored, otherVars, ghostVars>>

\* ------------------------------------------------------------------ merged tool streams
RemoveAt(s, i) == SubSeq(s, 1, i - 1) \o SubSeq(s, i + 1, Len(s))
\* what a tool stream yields as its Result: the result known at dispatch, or the sink's
ToolOutcomes(f) == IF f.ready THEN {f.result} ELSE {Ok("tool output"), Err("tool failed")}
SetOutcome(invs, id, result) ==
    [i \in 1..Len(invs) |->
        IF invs[i].id = id THEN [invs[i] EXCEPT !.ready = TRUE, !.result = result]
        ELSE invs[i]]

\* a merge loop that records the results in the order of dispatch, whichever stream each
\* came from
CombinedResult_by_position ==
    /\ pc = "combined"
    /\ ~cancelled
    /\ \E i \in 1..Len(tool_futures) : \E result \in ToolOutcomes(tool_futures[i]) :
         /\ message_tool_response' =
                Append(message_tool_response, [id |-> Head(tool_futures).id, result |-> result])
         /\ dispatched' = SetOutcome(dispatched, tool_futures[i].id, result)
         /\ tool_futures' = Tail(tool_futures)
    /\ NoYield
    /\ UNCHANGED <<configVars, attempts, agentVars, cancelled, channelVars, pc, loopVars,
                   response, frontend_requests, remaining_requests, needs_approval, todo,
                   posted, provider_calls, provider_errored, otherVars, ghostVars>>

\* combined.next() yields the Result of one tool stream: it is recorded under its request id
CombinedResult ==
    /\ pc = "combined"
    /\ ~cancelled
    /\ \E i \in 1..Len(tool_futures) : \E result \in ToolOutcomes(tool_futures[i]) :
         /\ message_tool_response' =
                with_tool_response(message_tool_response, tool_futures[i].id, result)
         /\ dispatched' = SetOutcome(dispatched, tool_futures[i].id, result)
         /\ tool_futures' = RemoveAt(tool_futures, i)
    /\ NoYield
    /\ UNCHANGED <<configVars, attempts, agentVars, cancelled, channelVars, pc, loopVars,
                   response, frontend_requests, remaining_requests, needs_approval, todo,
                   posted, provider_calls, provider_errored, otherVars, ghostVars>>

\* combined.next() yields the Message of a tool stream whose result is still to come: it
\* is passed on as a notification under the stream's request id
CombinedNotification ==
    /\ pc = "combined"
    /\ ~cancelled
    /\ \E i \in 1..Len(tool_futures) :
         /\ ~tool_futures[i].ready
         /\ emitted' = McpNotificationEvent(tool_futures[i].id)
    /\ UNCHANGED <<configVars, attempts, agentVars, cancelled, channelVars, pc, loopVars,
                   turnVars, n_asst, provider_calls, provider_errored, otherVars, ghostVars>>

\* combined.next() yields an item and the token is cancelled: break out of the merge loop
CombinedCancelled ==
    /\ pc = "combined"
    /\ cancelled
    /\ tool_futures # <<>>
    /\ tool_futures' = <<>>
    /\ tools_updated' = TRUE
    /\ pc' = "aggregate"
    /\ NoYield
    /\ UNCHANGED <<configVars, attempts, agentVars, cancelled, channelVars, turns_taken, chunk,
                   added_message, messages_to_add, messages, response, frontend_requests,
                   remaining_requests, needs_approval, todo, message_tool_response,
                   dispatched, posted, provider_calls, provider_errored, otherVars, ghostVars>>

\* combined.next() is None: every tool stream has ended
CombinedEnd ==
    /\ pc = "combined"
    /\ tool_futures = <<>>
    /\ tools_updated' = TRUE
    /\ pc' = "aggregate"
    /\ NoYield
    /\ UNCHANGED <<configVars, attempts, agentVars, cancelled, channelVars, turns_taken, chunk,
                   added_message, messages_to_add, messages, turnVars, provider_calls, provider_errored, otherVars, ghostVars>>

\* the aggregated tool-response message is emitted and, with the response, queued for the
\* conversation
Aggregate ==
    /\ pc = "aggregate"
    /\ Yield(MessageEvent("user", "tool_response"))
    /\ added_message' = TRUE
    /\ messages_to_add' = messages_to_add \o
            <<Shape("assistant", "response"), Shape("user", "tool_response")>>
    /\ ClearTurn
    /\ pc' = "stream"
    /\ UNCHANGED <<configVars, attempts, agentVars, cancelled, channelVars, turns_taken, chunk,
                   tools_updated, messages, provider_calls, provider_errored, otherVars, ghostVars>>

\* ------------------------------------------------------------------ the end of a turn
\* after the `while let` over the provider stream: a turn that added no message ends the
\* reply unless the final-output tool still waits for its output or the retry logic
\* restarts; a turn that added messages extends the conversation and loops
AfterStream ==
    /\ pc = "after_stream"
    /\ IF ~added_message
       THEN IF final_output_tool = "Unset"
            THEN /\ messages_to_add' = Append(messages_to_add,
                        Shape("user", FINAL_OUTPUT_CONTINUATION_MESSAGE))
                 /\ Yield(MessageEvent("user", FINAL_OUTPUT_CONTINUATION_MESSAGE))
                 /\ pc' = "loop"
                 /\ UNCHANGED messages
            ELSE IF FinalOutputReady(final_output_tool)
            THEN /\ messages_to_add' = Append(messages_to_add,
                        Shape("assistant", "final_output"))
                 /\ Yield(MessageEvent("assistant", "final_output"))
                 /\ pc' = "retry"
                 /\ UNCHANGED messages
            ELSE /\ pc' = "retry"
                 /\ NoYield
                 /\ UNCHANGED <<messages, messages_to_add>>
       ELSE /\ messages' = messages \o messages_to_add
            /\ pc' = "loop"
            /\ NoYield
            /\ UNCHANGED messages_to_add
    /\ UNCHANGED <<configVars, attempts, agentVars, cancelled, channelVars, turns_taken, chunk,
                   added_message, tools_updated, turnVars, provider_calls, provider_errored,
                   otherVars, ghostVars>>

\* RetryManager::handle_retry_logic: what it may return
RetryResults ==
    IF max_attempts = 0 THEN {"Skipped"}
    ELSE {"SuccessChecksPassed", "Error"} \cup
         (IF attempts < max_attempts THEN {"Retried"} ELSE {"MaxAttemptsReached"})

\* Agent::handle_retry_logic and the match on its result
RetryLogic ==
    /\ pc = "retry"
    /\ \E result \in RetryResults :
         /\ retry_result' = result
         /\ IF result = "Retried"
            THEN /\ attempts' = attempts + 1
                 /\ tool_monitor' = reset_tool_monitor(tool_monitor)
                 /\ messages' = InitialMessages
                 /\ pc' = "loop"
                 /\ NoYield
            ELSE IF result = "Error"
            THEN /\ Yield(MessageEvent("assistant", RETRY_ERROR_NOTICE))
                 /\ pc' = "done"
                 /\ UNCHANGED <<attempts, tool_monitor, messages>>
            ELSE IF result = "MaxAttemptsReached"
            THEN /\ messages' = Append(messages, Shape("assistant", RETRY_EXHAUSTED_NOTICE))
                 /\ pc' = "done"
                 /\ NoYield
                 /\ UNCHANGED <<attempts, tool_monitor>>
            ELSE /\ pc' = "done"
                 /\ NoYield
                 /\ UNCHANGED <<attempts, tool_monitor, messages>>
    /\ UNCHANGED <<configVars, final_output_tool, cancelled, channelVars, turns_taken, chunk,
                   added_message, messages_to_add, tools_updated, turnVars, provider_calls,
                   provider_errored, otherVars, context_usage, turn_has_message>>

Next ==
    \/ Cancel
    \/ ReplyStart
    \/ HistoryReplaced
    \/ LoopTop
    \/ ProviderStreamEnds
    \/ ProviderItemCancelled
    \/ ProviderYieldsModelChange
    \/ ProviderYieldsUsage
    \/ ProviderYieldsResponse
    \/ ProviderYieldsError
    \/ FrontendAnnounce
    \/ FrontendReceive
    \/ HandleToolResult
    \/ PermissionStep
    \/ ApprovalAnnounce
    \/ ApprovalReceive
    \/ HandleConfirmation
    \/ ApprovalDone
    \/ CombinedResult
    \/ CombinedNotification
    \/ CombinedCancelled
    \/ CombinedEnd
    \/ Aggregate
    \/ AfterStream
    \/ RetryLogic

Spec == Init /\ [][Next]_vars

\* the steps of the reply stream between the confirmation requests of a response and its
\* aggregated message: the receipt of a confirmation, the end of the approval sub-stream,
\* the items of the merged tool streams and the emission of the aggregated message
ToolPhaseNext ==
    \/ ApprovalReceive
    \/ ApprovalDone
    \/ CombinedResult
    \/ CombinedCancelled
    \/ CombinedEnd
    \/ Aggregate

\* a reply whose consumer keeps polling the stream while a posted tool result waits
SpecFrontend == Init /\ [][Next]_vars /\ WF_vars(FrontendReceive)

\* the steps the reply stream takes when its consumer polls it, apart from the permission
\* step and from the notifications of tools that still run
ReplyStreamNext ==
    \/ ReplyStart
    \/ HistoryReplaced
    \/ LoopTop
    \/ ProviderStreamEnds
    \/ ProviderItemCancelled
    \/ ProviderYieldsModelChange
    \/ ProviderYieldsUsage
    \/ ProviderYieldsResponse
    \/ ProviderYieldsError
    \/ FrontendAnnounce
    \/ FrontendReceive
    \/ ApprovalAnnounce
    \/ ApprovalReceive
    \/ ApprovalDone
    \/ CombinedResult
    \/ CombinedCancelled
    \/ CombinedEnd
    \/ Aggregate
    \/ AfterStream
    \/ RetryLogic

\* the reply stream is about to run the permission gate or the chat-mode answers; the
\* only step that leaves this place is PermissionStep, which is always possible in it
AtPermissionGate == pc = "frontend" /\ todo = <<>>

\* the host posts the result of the frontend request the reply waits for
HostAnswersAwaited ==
    /\ HandleToolResult
    /\ Head(tool_result_ch').id = Head(todo).id

\* a reply with the whole turn budget whose history is compacted first
TerminatesInit ==
    /\ Init
    /\ max_turns = MaxTurns
    /\ context_usage = 90

\* a reply whose consumer keeps polling the stream, whose provider streams and tool
\* streams end (a tool does not send notifications for ever), and whose host answers
\* every confirmation request and, again and again if need be, the awaited frontend request
SpecTerminates ==
    /\ TerminatesInit /\ [][Next]_vars
    /\ WF_vars(ReplyStreamNext)
    /\ []<>~AtPermissionGate
    /\ WF_vars(HandleConfirmation)
    /\ SF_vars(HostAnswersAwaited)

\* a reply in a mode that asks for confirmations, on a plain agent, whose consumer keeps
\* polling the stream and whose tool streams all end
ApprovalInit ==
    /\ Init
    /\ goose_mode \in {"approve", "smart_approve"}
    /\ max_attempts = 0
    /\ final_output_tool = "None"
    /\ ~tool_monitor.set
SpecApproval == ApprovalInit /\ [][Next]_vars /\ WF_vars(ToolPhaseNext)

\* ------------------------------------------------------------------ the monitor on its own
\* the calls made in the monitor specification
MonitorCalls == {ToolCall(n, a) : n \in {"web__fetch", "fs__read"}, a \in {"{}", "{url}"}}

\* an agent on which no reply runs
IdleAgent ==
    /\ goose_mode = "auto"
    /\ max_turns = 1
    /\ max_attempts = 0
    /\ attempts = 0
    /\ final_output_tool = "None"
    /\ cancelled = FALSE
    /\ confirmation_ch = <<>>
    /\ tool_result_ch = <<>>
    /\ pc = "idle"
    /\ turns_taken = 0
    /\ chunk = 0
    /\ added_message = FALSE
    /\ messages_to_add = <<>>
    /\ tools_updated = FALSE
    /\ messages = InitialMessages
    /\ response = <<>>
    /\ frontend_requests = <<>>
    /\ remaining_requests = <<>>
    /\ needs_approval = <<>>
    /\ todo = <<>>
    /\ message_tool_response = <<>>
    /\ tool_futures = <<>>
    /\ emitted = NoEvent
    /\ n_asst = 0
    /\ provider_calls = 0
    /\ provider_errored = FALSE
    /\ dispatched = <<>>
    /\ posted = {}
    /\ context_usage = 0
    /\ turn_has_message = FALSE
    /\ retry_result = "None"

MonitorInit ==
    /\ IdleAgent
    /\ tool_monitor = NoToolMonitor
    /\ call_log = <<>>
    /\ IdleScratchpad
    /\ IdleAux

\* Agent::configure_tool_monitor(max_repetitions); the log restarts with the new monitor
ConfigureToolMonitor ==
    /\ \E max_repetitions \in {NoLimit} \cup 0..MaxRepetitions :
         tool_monitor' = NewToolMonitor(max_repetitions)
    /\ call_log' = <<>>
    /\ UNCHANGED <<replyVars, todoVars, auxVars>>

\* Agent::dispatch_tool_call, called directly
DispatchCall ==
    /\ Len(call_log) < MaxCalls
    /\ \E call \in MonitorCalls :
         LET d == dispatch_tool_call(tool_monitor, final_output_tool, call)
         IN /\ tool_monitor' = d.monitor
            /\ call_log' = Append(call_log,
                   [call |-> call, sink |-> d.sink, outer_ok |-> d.outer_ok, result |-> d.result])
    /\ UNCHANGED <<replyVars, todoVars, auxVars>>

MonitorNext ==
    \/ ConfigureToolMonitor
    \/ DispatchCall

SpecMonitor == MonitorInit /\ [][MonitorNext]_vars

\* ------------------------------------------------------------------ the scratchpad on its own
\* the character budget: GOOSE_TODO_MAX_CHARS parsed as a number, else the default
todo_max_chars_or_default(env) == IF env = NoLimit THEN DEFAULT_TODO_MAX_CHARS ELSE env

\* what the session storage does on a call: it works, or one of its steps fails
StorageOutcomes == {"ok", "no_path", "read_failed", "update_failed"}

\* dispatch_tool_call for todo_read: the stored content, or the empty text when there is
\* no session or the metadata cannot be read
todo_read(has_session, stored, storage) ==
    IF has_session /\ storage \notin {"no_path", "read_failed"}
    THEN TodoResult(TODO_READ_TOOL_NAME, <<>>, TRUE, "text", stored)
    ELSE TodoResult(TODO_READ_TOOL_NAME, <<>>, TRUE, "text", <<>>)

\* dispatch_tool_call for todo_write: the budget test, then the session, then the storage
todo_write(has_session, env, content, storage) ==
    LET max_chars == todo_max_chars_or_default(env)
    IN IF max_chars > 0 /\ Len(content) > max_chars
       THEN TodoResult(TODO_WRITE_TOOL_NAME, content, FALSE, "too_large", <<>>)
       ELSE IF ~has_session
       THEN TodoResult(TODO_WRITE_TOOL_NAME, content, FALSE, "no_session", <<>>)
       ELSE IF storage = "no_path"
       THEN TodoResult(TODO_WRITE_TOOL_NAME, content, FALSE, "no_path", <<>>)
       ELSE IF storage = "read_failed"
       THEN TodoResult(TODO_WRITE_TOOL_NAME, content, FALSE, "read_failed", <<>>)
       ELSE IF storage = "update_failed"
       THEN TodoResult(TODO_WRITE_TOOL_NAME, content, FALSE, "update_failed", <<>>)
       ELSE TodoResult(TODO_WRITE_TOOL_NAME, content, TRUE, "updated", <<>>)

\* the contents passed to todo_write
RECURSIVE Contents(_)
Contents(n) ==
    IF n = 0 THEN {<<>>}
    ELSE Contents(n - 1) \cup {Append(c, ch) : c \in Contents(n - 1), ch \in {"a", "b"}}

TodoInit ==
    /\ IdleAgent
    /\ tool_monitor = NoToolMonitor
    /\ call_log = <<>>
    /\ session \in BOOLEAN
    /\ todo_max_chars \in {NoLimit, 0, TodoCap}
    /\ todo_content = <<>>
    /\ todo_result = TodoResult("none", <<>>, TRUE, "none", <<>>)
    /\ IdleAux

\* dispatch_tool_call with a todo_read call
TodoRead ==
    /\ \E storage \in StorageOutcomes :
         todo_result' = todo_read(session, todo_content, storage)
    /\ UNCHANGED <<replyVars, tool_monitor, call_log, session, todo_max_chars, todo_content,
                   auxVars>>

\* dispatch_tool_call with a todo_write call
TodoWrite ==
    /\ \E content \in Contents(MaxContentLen) : \E storage \in StorageOutcomes :
         LET r == todo_write(session, todo_max_chars, content, storage)
         IN /\ todo_result' = r
            /\ todo_content' = IF r.ok THEN content ELSE todo_content
    /\ UNCHANGED <<replyVars, tool_monitor, call_log, session, todo_max_chars, auxVars>>

TodoNext ==
    \/ TodoRead
    \/ TodoWrite

SpecTodo == TodoInit /\ [][TodoNext]_vars

\* ------------------------------------------------------------------ the registry on its own
\* the extension configurations the host adds: two served by the extension manager and a
\* Frontend one; the tools of a managed extension are listed under its prefixed names
ExtensionConfigs ==
    {[name |-> "fs", frontend |-> FALSE, tools |-> ExtensionTools],
     [name |-> "web", frontend |-> FALSE, tools |-> {"web__fetch"}],
     [name |-> "ui", frontend |-> TRUE, tools |-> FrontendTools]}
ToolsOf(name) == UNION {cfg.tools : cfg \in {c \in ExtensionConfigs : c.name = name}}

\* FinalOutputTool::system_prompt and an instruction the host adds
FINAL_OUTPUT_SYSTEM_PROMPT == "final output instructions"
HOST_INSTRUCTION == "host instruction"

\* ExtensionManager::get_prefixed_tools(None): the tools of the extensions it holds
get_prefixed_tools(exts) == UNION {ToolsOf(e) : e \in exts}

\* Agent::is_frontend_tool
is_frontend_tool(registered, name) == name \in registered

\* Agent::list_tools(None) without the todo tools
list_tools_without_todo(exts, fot, sub_recipe_tools, supports_resources) ==
    get_prefixed_tools(exts)
    \cup {PLATFORM_SEARCH_AVAILABLE_EXTENSIONS_TOOL_NAME, PLATFORM_MANAGE_EXTENSIONS_TOOL_NAME,
          PLATFORM_MANAGE_SCHEDULE_TOOL_NAME}
    \cup {DYNAMIC_TASK_TOOL_NAME_PREFIX}
    \cup (IF supports_resources
          THEN {PLATFORM_READ_RESOURCE_TOOL_NAME, PLATFORM_LIST_RESOURCES_TOOL_NAME} ELSE {})
    \cup sub_recipe_tools
    \cup (IF fot # "None" THEN {FINAL_OUTPUT_TOOL_NAME} ELSE {})
    \cup {SUBAGENT_EXECUTE_TASK_TOOL_NAME}

\* Agent::list_tools(None): the names of the tools listed
list_tools(exts, fot, sub_recipe_tools, supports_resources) ==
    get_prefixed_tools(exts)
    \cup {PLATFORM_SEARCH_AVAILABLE_EXTENSIONS_TOOL_NAME, PLATFORM_MANAGE_EXTENSIONS_TOOL_NAME,
          PLATFORM_MANAGE_SCHEDULE_TOOL_NAME}
    \cup {TODO_READ_TOOL_NAME, TODO_WRITE_TOOL_NAME}
    \cup {DYNAMIC_TASK_TOOL_NAME_PREFIX}
    \cup (IF supports_resources
          THEN {PLATFORM_READ_RESOURCE_TOOL_NAME, PLATFORM_LIST_RESOURCES_TOOL_NAME} ELSE {})
    \cup sub_recipe_tools
    \cup (IF fot # "None" THEN {FINAL_OUTPUT_TOOL_NAME} ELSE {})
    \cup {SUBAGENT_EXECUTE_TASK_TOOL_NAME}

\* PromptManager::build_system_prompt: the base prompt followed by the extras
build_system_prompt(extras) == <<"base prompt">> \o extras

\* what a registry operation leaves alone besides the registry
registryFrame == <<configVars, attempts, cancelled, channelVars, pc, loopVars, turnVars,
                   emitted, n_asst, provider_calls, provider_errored, ghostVars,
                   tool_monitor, call_log, todoVars, gcp, vertex_model, routed,
                   sideVars>>

RegistryInit ==
    /\ IdleAgent
    /\ tool_monitor = NoToolMonitor
    /\ call_log = <<>>
    /\ IdleScratchpad
    /\ IdleAux

\* Agent::add_extension: a Frontend extension's tools are stored in frontend_tools, any
\* other extension is added to the extension manager (its handshake may fail); then the
\* router index is updated when the router is functional, which may fail
AddExtension ==
    /\ \E cfg \in ExtensionConfigs : \E handshake_ok \in BOOLEAN : \E index_ok \in BOOLEAN :
         IF cfg.frontend
         THEN /\ frontend_tools' = frontend_tools \cup cfg.tools
              /\ registry_result' = RegistryResult("add", cfg.name, index_ok)
              /\ UNCHANGED extensions
         ELSE IF ~handshake_ok
         THEN /\ registry_result' = RegistryResult("add", cfg.name, FALSE)
              /\ UNCHANGED <<frontend_tools, extensions>>
         ELSE /\ extensions' = extensions \cup {cfg.name}
              /\ registry_result' = RegistryResult("add", cfg.name, index_ok)
              /\ UNCHANGED frontend_tools
    /\ UNCHANGED <<registryFrame, final_output_tool, prompt_extras>>

\* Agent::remove_extension: the extension manager removes the extension (for a name it
\* does not hold it answers Ok or Err); then the router index is updated when the router
\* is functional, which may fail
RemoveExtension ==
    /\ \E cfg \in ExtensionConfigs : \E manager_ok \in BOOLEAN : \E index_ok \in BOOLEAN :
         IF cfg.name \notin extensions /\ ~manager_ok
         THEN /\ registry_result' = RegistryResult("remove", cfg.name, FALSE)
              /\ UNCHANGED extensions
         ELSE /\ extensions' = extensions \ {cfg.name}
              /\ registry_result' = RegistryResult("remove", cfg.name, index_ok)
    /\ UNCHANGED <<registryFrame, final_output_tool, frontend_tools, prompt_extras>>

\* Agent::add_final_output_tool
AddFinalOutputTool ==
    /\ Len(prompt_extras) < MaxExtras
    /\ final_output_tool' = "Unset"
    /\ prompt_extras' = Append(prompt_extras, FINAL_OUTPUT_SYSTEM_PROMPT)
    /\ registry_result' = RegistryResult("add_final_output_tool", "", TRUE)
    /\ UNCHANGED <<registryFrame, frontend_tools, extensions>>

\* Agent::extend_system_prompt
ExtendSystemPrompt ==
    /\ Len(prompt_extras) < MaxExtras
    /\ prompt_extras' = Append(prompt_extras, HOST_INSTRUCTION)
    /\ registry_result' = RegistryResult("extend_system_prompt", "", TRUE)
    /\ UNCHANGED <<registryFrame, final_output_tool, frontend_tools, extensions>>

RegistryNext ==
    \/ AddExtension
    \/ RemoveExtension
    \/ AddFinalOutputTool
    \/ ExtendSystemPrompt

SpecRegistry == RegistryInit /\ [][RegistryNext]_vars

\* ------------------------------------------------------------------ the Vertex AI provider
Statuses == {STATUS_OK, STATUS_UNAUTHORIZED, STATUS_FORBIDDEN, STATUS_TOO_MANY_REQUESTS,
             STATUS_API_OVERLOADED, STATUS_INTERNAL_SERVER_ERROR}

\* a test that lets one more retry pass
retries_exhausted_late(count, max_retries) == count > max_retries + 1

\* post_with_location: the test of a status's attempt counter after its increment
retries_exhausted(count, max_retries) == count > max_retries

\* post_with_location, the arm for the other status codes: the body is parsed as JSON,
\* then the status decides
status_result(status, body_json) ==
    IF ~body_json THEN "RequestFailed"
    ELSE IF status = STATUS_OK THEN "Ok"
    ELSE IF status \in {STATUS_UNAUTHORIZED, STATUS_FORBIDDEN} THEN "Authentication"
    ELSE "RequestFailed"

\* post_with_location returns; the cause is what made it return ("status": a response)
GcpReturn(g, result, cause) ==
    [g EXCEPT !.pc = "returned", !.result = result, !.cause = cause]

\* one pass of the loop of post_with_location: the auth header is fetched, the request is
\* sent and the status of the response is handled
post_with_location_pass(g, auth_ok, send_ok, status, body_json) ==
    IF /\ g.rate_limit_attempts > g.max_retries
       /\ g.overloaded_attempts > g.max_retries
    THEN GcpReturn(g, IF g.last_error = "None" THEN "RateLimitExceeded" ELSE g.last_error,
                   "exhausted")
    ELSE IF ~auth_ok THEN GcpReturn(g, "Authentication", "auth_header")
    ELSE IF ~send_ok THEN GcpReturn(g, "RequestFailed", "send")
    ELSE LET r == [g EXCEPT !.sent = g.sent + 1, !.last_status = status,
                            !.last_body_json = body_json]
         IN IF status = STATUS_TOO_MANY_REQUESTS
            THEN LET n == r.rate_limit_attempts + 1
                     c == [r EXCEPT !.rate_limit_attempts = n]
                 IN IF retries_exhausted(n, r.max_retries)
                    THEN GcpReturn(c, IF r.last_error = "None" THEN "RateLimitExceeded"
                                      ELSE r.last_error, "status")
                    ELSE [c EXCEPT !.last_error = "RateLimitExceeded",
                                   !.waits = Append(r.waits, <<status, n>>)]
            ELSE IF status = STATUS_API_OVERLOADED
            THEN LET n == r.overloaded_attempts + 1
                     c == [r EXCEPT !.overloaded_attempts = n]
                 IN IF retries_exhausted(n, r.max_retries)
                    THEN GcpReturn(c, IF r.last_error = "None" THEN "RateLimitExceeded"
                                      ELSE r.last_error, "status")
                    ELSE [c EXCEPT !.last_error = "RateLimitExceeded",
                                   !.waits = Append(r.waits, <<status, n>>)]
            ELSE GcpReturn(r, status_result(status, body_json), "status")

\* post_with_location starts: the request URL is built and the locals are initialised
post_with_location_start(g, url_ok) ==
    LET fresh == [g EXCEPT !.pc = "loop", !.rate_limit_attempts = 0,
                           !.overloaded_attempts = 0, !.last_error = "None", !.sent = 0,
                           !.last_status = 0, !.waits = <<>>, !.cause = "none"]
    IN IF ~url_ok THEN GcpReturn(fresh, "RequestFailed", "url") ELSE fresh

gcpFrame == <<replyVars, tool_monitor, call_log, todoVars, registryVars, vertex_model,
              routed, sideVars>>

GcpInit ==
    /\ IdleAgent
    /\ tool_monitor = NoToolMonitor
    /\ call_log = <<>>
    /\ IdleScratchpad
    /\ frontend_tools = {}
    /\ extensions = {}
    /\ prompt_extras = <<>>
    /\ registry_result = RegistryResult("none", "", TRUE)
    /\ vertex_model = VertexModel(<<>>)
    /\ routed = NoRouting
    /\ IdleSide
    /\ \E max_retries \in 0..MaxRetries : \E at_known_location \in BOOLEAN :
         gcp = GcpCall(max_retries, at_known_location)

\* GcpVertexAIProvider::post calls post_with_location with the configured location
GcpPost ==
    /\ gcp.pc = "post"
    /\ \E url_ok \in BOOLEAN : gcp' = post_with_location_start(gcp, url_ok)
    /\ UNCHANGED gcpFrame

\* one pass of the loop of post_with_location
GcpAttempt ==
    /\ gcp.pc = "loop"
    /\ \E auth_ok \in BOOLEAN : \E send_ok \in BOOLEAN : \E status \in Statuses :
       \E body_json \in BOOLEAN :
         gcp' = post_with_location_pass(gcp, auth_ok, send_ok, status, body_json)
    /\ UNCHANGED gcpFrame

\* a post that answers every error of the first call by a call at the known location
GcpPostReturns_any_error ==
    /\ gcp.pc = "returned"
    /\ IF gcp.call = 2 \/ gcp.at_known_location \/ gcp.result = "Ok"
       THEN gcp' = [gcp EXCEPT !.pc = "done"]
       ELSE \E url_ok \in BOOLEAN :
              gcp' = post_with_location_start(
                        [gcp EXCEPT !.call = 2, !.first_result = gcp.result,
                                    !.first_status = gcp.last_status], url_ok)
    /\ UNCHANGED gcpFrame

\* GcpVertexAIProvider::post after post_with_location returned: the result is returned,
\* or a RequestFailed of the first call is answered by a call at the model's known location
GcpPostReturns ==
    /\ gcp.pc = "returned"
    /\ IF gcp.call = 2 \/ gcp.at_known_location \/ gcp.result = "Ok"
       THEN gcp' = [gcp EXCEPT !.pc = "done"]
       ELSE IF gcp.result = "RequestFailed"
       THEN \E url_ok \in BOOLEAN :
              gcp' = post_with_location_start(
                        [gcp EXCEPT !.call = 2, !.first_result = gcp.result,
                                    !.first_status = gcp.last_status], url_ok)
       ELSE gcp' = [gcp EXCEPT !.pc = "done"]
    /\ UNCHANGED gcpFrame

GcpNext ==
    \/ GcpPost
    \/ GcpAttempt
    \/ GcpPostReturns

SpecGcp == GcpInit /\ [][GcpNext]_vars

\* ------------------------------------------------------------------ Vertex AI model ids
\* the pieces model ids are made of: the family names, the separators, a piece of a name
\* no known id has, and what follows the family name in the known ids
IdPieces ==
    {"claude", "gemini", "qwen", "-", "/", "x",
     "3-5-sonnet@20240620", "3-5-sonnet-v2@20241022", "3-7-sonnet@20250219",
     "3-5-haiku@20241022", "sonnet-4@20250514", "opus-4@20250514",
     "1.5-pro-002", "2.0-flash-001", "2.0-pro-exp-02-05", "2.5-pro-exp-03-25",
     "2.5-flash-preview-05-20", "2.5-pro-preview-05-06", "2.5-flash", "2.5-pro",
     "3-coder-480b-a35b-instruct-maas"}
ModelIds == UNION {[1..n -> IdPieces] : n \in 0..MaxIdLen}

\* str::starts_with and str::strip_prefix
starts_with(s, prefix) == Len(s) >= Len(prefix) /\ SubSeq(s, 1, Len(prefix)) = prefix
strip_prefix(s, prefix) == SubSeq(s, Len(prefix) + 1, Len(s))

\* a GcpVertexAIModel: its family, its version, and the name of a Generic version
Model(family, version) == [ok |-> TRUE, family |-> family, version |-> version, name |-> <<>>]
Generic(family, name) == [ok |-> TRUE, family |-> family, version |-> "Generic", name |-> name]
UnsupportedModel == [ok |-> FALSE, family |-> "", version |-> "", name |-> <<>>]

\* a parser that takes every Qwen id as written, prefix included
try_from_keeping_prefix(s) ==
    IF starts_with(s, <<"claude", "-">>) THEN Generic("Claude", s)
    ELSE IF starts_with(s, <<"gemini", "-">>) THEN Generic("Gemini", s)
    ELSE IF starts_with(s, <<"qwen">>) THEN Generic("Qwen", s)
    ELSE UnsupportedModel

\* GcpVertexAIModel::try_from
try_from(s) ==
    CASE s = <<"claude", "-", "3-5-sonnet@20240620">> -> Model("Claude", "Sonnet35")
      [] s = <<"claude", "-", "3-5-sonnet-v2@20241022">> -> Model("Claude", "Sonnet35V2")
      [] s = <<"claude", "-", "3-7-sonnet@20250219">> -> Model("Claude", "Sonnet37")
      [] s = <<"claude", "-", "3-5-haiku@20241022">> -> Model("Claude", "Haiku35")
      [] s = <<"claude", "-", "sonnet-4@20250514">> -> Model("Claude", "Sonnet4")
      [] s = <<"claude", "-", "opus-4@20250514">> -> Model("Claude", "Opus4")
      [] s = <<"gemini", "-", "1.5-pro-002">> -> Model("Gemini", "Pro15")
      [] s = <<"gemini", "-", "2.0-flash-001">> -> Model("Gemini", "Flash20")
      [] s = <<"gemini", "-", "2.0-pro-exp-02-05">> -> Model("Gemini", "Pro20Exp")
      [] s = <<"gemini", "-", "2.5-pro-exp-03-25">> -> Model("Gemini", "Pro25Exp")
      [] s = <<"gemini", "-", "2.5-flash-preview-05-20">> -> Model("Gemini", "Flash25Preview")
      [] s = <<"gemini", "-", "2.5-pro-preview-05-06">> -> Model("Gemini", "Pro25Preview")
      [] s = <<"gemini", "-", "2.5-flash">> -> Model("Gemini", "Flash25")
      [] s = <<"gemini", "-", "2.5-pro">> -> Model("Gemini", "Pro25")
      [] s = <<"qwen", "3-coder-480b-a35b-instruct-maas">> ->
            Model("Qwen", "Coder480BInstructMaas")
      [] s = <<"qwen", "/", "qwen", "3-coder-480b-a35b-instruct-maas">> ->
            Model("Qwen", "Coder480BInstructMaas")
      [] OTHER ->
            IF starts_with(s, <<"claude", "-">>) THEN Generic("Claude", s)
            ELSE IF starts_with(s, <<"gemini", "-">>) THEN Generic("Gemini", s)
            ELSE IF starts_with(s, <<"qwen", "/">>)
            THEN Generic("Qwen", strip_prefix(s, <<"qwen", "/">>))
            ELSE IF starts_with(s, <<"qwen">>) THEN Generic("Qwen", s)
            ELSE UnsupportedModel

\* impl fmt::Display for GcpVertexAIModel (to_string)
to_string(m) ==
    CASE m.family = "Claude" ->
           (CASE m.version = "Sonnet35" -> <<"claude", "-", "3-5-sonnet@20240620">>
              [] m.version = "Sonnet35V2" -> <<"claude", "-", "3-5-sonnet-v2@20241022">>
              [] m.version = "Sonnet37" -> <<"claude", "-", "3-7-sonnet@20250219">>
              [] m.version = "Haiku35" -> <<"claude", "-", "3-5-haiku@20241022">>
              [] m.version = "Sonnet4" -> <<"claude", "-", "sonnet-4@20250514">>
              [] m.version = "Opus4" -> <<"claude", "-", "opus-4@20250514">>
              [] m.version = "Generic" -> m.name)
      [] m.family = "Gemini" ->
           (CASE m.version = "Pro15" -> <<"gemini", "-", "1.5-pro-002">>
              [] m.version = "Flash20" -> <<"gemini", "-", "2.0-flash-001">>
              [] m.version = "Pro20Exp" -> <<"gemini", "-", "2.0-pro-exp-02-05">>
              [] m.version = "Pro25Exp" -> <<"gemini", "-", "2.5-pro-exp-03-25">>
              [] m.version = "Flash25Preview" -> <<"gemini", "-", "2.5-flash-preview-05-20">>
              [] m.version = "Pro25Preview" -> <<"gemini", "-", "2.5-pro-preview-05-06">>
              [] m.version = "Flash25" -> <<"gemini", "-", "2.5-flash">>
              [] m.version = "Pro25" -> <<"gemini", "-", "2.5-pro">>
              [] m.version = "Generic" -> m.name)
      [] m.family = "Qwen" ->
           (CASE m.version = "Coder480BInstructMaas" ->
                    <<"qwen", "3-coder-480b-a35b-instruct-maas">>
              [] m.version = "Generic" -> m.name)

modelIdFrame == <<replyVars, tool_monitor, call_log, todoVars, registryVars, gcp, routed,
                  sideVars>>

ModelIdInit ==
    /\ IdleAgent
    /\ tool_monitor = NoToolMonitor
    /\ call_log = <<>>
    /\ IdleScratchpad
    /\ frontend_tools = {}
    /\ extensions = {}
    /\ prompt_extras = <<>>
    /\ registry_result = RegistryResult("none", "", TRUE)
    /\ gcp = IdleGcp
    /\ routed = NoRouting
    /\ IdleSide
    /\ \E id \in ModelIds : vertex_model = VertexModel(id)

\* GcpVertexAIModel::try_from(id)
ParseModelId ==
    /\ vertex_model.pc = "id"
    /\ vertex_model' = [vertex_model EXCEPT !.pc = "parsed", !.parsed = try_from(vertex_model.id)]
    /\ UNCHANGED modelIdFrame

\* model.to_string()
PrintModel ==
    /\ vertex_model.pc = "parsed"
    /\ vertex_model.parsed.ok
    /\ vertex_model' = [vertex_model EXCEPT !.pc = "printed",
                                          !.printed = to_string(vertex_model.parsed)]
    /\ UNCHANGED modelIdFrame

ModelIdNext ==
    \/ ParseModelId
    \/ PrintModel

SpecModelId == ModelIdInit /\ [][ModelIdNext]_vars

\* ------------------------------------------------------------------ routing on its own
\* the tool a sub-recipe is exposed as
SUB_RECIPE_TOOL == "subrecipe__create_task_report"

\* the names of the calls dispatched: every name the dispatcher tests for, a frontend
\* tool, a tool of an extension and the sub-recipe tool
RoutedNames ==
    {PLATFORM_MANAGE_SCHEDULE_TOOL_NAME, PLATFORM_MANAGE_EXTENSIONS_TOOL_NAME,
     FINAL_OUTPUT_TOOL_NAME, SUBAGENT_EXECUTE_TASK_TOOL_NAME, DYNAMIC_TASK_TOOL_NAME_PREFIX,
     PLATFORM_READ_RESOURCE_TOOL_NAME, PLATFORM_LIST_RESOURCES_TOOL_NAME,
     PLATFORM_SEARCH_AVAILABLE_EXTENSIONS_TOOL_NAME, TODO_READ_TOOL_NAME,
     TODO_WRITE_TOOL_NAME, ROUTER_LLM_SEARCH_TOOL_NAME, "ui__toast", "fs__read",
     SUB_RECIPE_TOOL}

\* the names a host gives the tools of its Frontend extensions
FrontendToolNames == {"ui__toast", TODO_READ_TOOL_NAME, SUB_RECIPE_TOOL}

routingFrame == <<replyVars, tool_monitor, call_log, todoVars, extensions, prompt_extras,
                  registry_result, gcp, vertex_model, sideVars>>

RoutingInit ==
    /\ IdleAgent
    /\ tool_monitor = NoToolMonitor
    /\ call_log = <<>>
    /\ IdleScratchpad
    /\ IdleAux

\* Agent::add_extension with a Frontend extension: its tools are stored by name
AddFrontendExtension ==
    /\ \E tools \in SUBSET FrontendToolNames :
         /\ tools # {}
         /\ ~(tools \subseteq frontend_tools)
         /\ frontend_tools' = frontend_tools \cup tools
    /\ UNCHANGED <<routingFrame, routed>>

\* Agent::add_sub_recipes
AddSubRecipes ==
    /\ SUB_RECIPE_TOOL \notin routed.sub_recipe_tools
    /\ routed' = [routed EXCEPT !.sub_recipe_tools = @ \cup {SUB_RECIPE_TOOL}]
    /\ UNCHANGED <<routingFrame, frontend_tools>>

\* Agent::dispatch_tool_call on an agent without a monitor: the sink the call reaches and
\* whether its result went through the large-response handler, with the tools that were
\* registered when the call was made
DispatchRouted ==
    /\ \E name \in RoutedNames : \E router_ok \in BOOLEAN :
         LET sink == route(name, frontend_tools, routed.sub_recipe_tools)
         IN routed' = [routed EXCEPT !.pc = "returned", !.name = name, !.sink = sink,
                          !.large_response_handled = large_response_handled(sink, router_ok),
                          !.frontend_at_call = frontend_tools,
                          !.sub_recipe_at_call = routed.sub_recipe_tools]
    /\ UNCHANGED <<routingFrame, frontend_tools>>

RoutingNext ==
    \/ AddFrontendExtension
    \/ AddSubRecipes
    \/ DispatchRouted

SpecRouting == RoutingInit /\ [][RoutingNext]_vars

\* ------------------------------------------------------------------ the mode of a reply
\* SessionConfig.execution_mode ("None": no session or no execution_mode) and the GOOSE_MODE
\* parameter of the configuration ("unset": get_param fails)
ExecutionModes == {"None", "foreground", "background", "other"}
ConfigModes == Modes \cup {"unset"}

\* a function that lets a configured GOOSE_MODE override the session
determine_goose_mode_config_first(execution_mode, config_mode) ==
    IF config_mode # "unset" THEN config_mode
    ELSE IF execution_mode = "foreground" THEN "chat"
    ELSE "auto"

\* Agent::determine_goose_mode
determine_goose_mode(execution_mode, config_mode) ==
    IF execution_mode = "foreground" THEN "chat"
    ELSE IF execution_mode = "background" THEN "auto"
    ELSE IF config_mode = "unset" THEN "auto"
    ELSE config_mode

modeFrame == <<max_turns, max_attempts, attempts, final_output_tool, cancelled, channelVars,
               pc, loopVars, turnVars, emitted, n_asst, provider_calls, provider_errored,
               ghostVars, tool_monitor, call_log, todoVars, registryVars, gcp, vertex_model,
               routed, retry_replies, stream, mutexes>>

ModeInit ==
    /\ IdleAgent
    /\ tool_monitor = NoToolMonitor
    /\ call_log = <<>>
    /\ IdleScratchpad
    /\ frontend_tools = {}
    /\ extensions = {}
    /\ prompt_extras = <<>>
    /\ registry_result = RegistryResult("none", "", TRUE)
    /\ gcp = IdleGcp
    /\ vertex_model = VertexModel(<<>>)
    /\ routed = NoRouting
    /\ retry_replies = NoReplies
    /\ stream = NoStream
    /\ mutexes = NoMutexes
    /\ \E execution_mode \in ExecutionModes : \E config_mode \in ConfigModes :
         mode_env = [NoModeEnv EXCEPT !.execution_mode = execution_mode,
                                      !.config_mode = config_mode]

\* Agent::prepare_reply_context: the mode of the reply is determined and put in the
\* ReplyContext
PrepareReplyContext ==
    /\ mode_env.pc = "idle"
    /\ goose_mode' = determine_goose_mode(mode_env.execution_mode, mode_env.config_mode)
    /\ mode_env' = [mode_env EXCEPT !.pc = "replying", !.config_at_start = mode_env.config_mode,
                                    !.used = ""]
    /\ UNCHANGED modeFrame

\* the configuration is changed: GOOSE_MODE is set to another value or removed
SetConfigMode ==
    /\ \E config_mode \in ConfigModes \ {mode_env.config_mode} :
         mode_env' = [mode_env EXCEPT !.config_mode = config_mode]
    /\ UNCHANGED <<modeFrame, goose_mode>>

\* reply_internal, for a response with tool requests: `let mode = goose_mode.clone()`
ReadMode ==
    /\ mode_env.pc = "replying"
    /\ mode_env.used = ""
    /\ mode_env' = [mode_env EXCEPT !.used = goose_mode]
    /\ UNCHANGED <<modeFrame, goose_mode>>

\* the reply stream ends
ModeReplyEnds ==
    /\ mode_env.pc = "replying"
    /\ mode_env' = [mode_env EXCEPT !.pc = "ended"]
    /\ UNCHANGED <<modeFrame, goose_mode>>

ModeNext ==
    \/ PrepareReplyContext
    \/ SetConfigMode
    \/ ReadMode
    \/ ModeReplyEnds

SpecMode == ModeInit /\ [][ModeNext]_vars

\* ------------------------------------------------------------------ the retry state
\* every variable but the retry counter of the Agent and the two replies
retryFrame == <<goose_mode, max_turns, max_attempts, final_output_tool, cancelled,
                channelVars, pc, loopVars, turnVars, emitted, n_asst, provider_calls,
                provider_errored, ghostVars, tool_monitor, call_log, todoVars, registryVars,
                gcp, vertex_model, routed, mode_env, stream, mutexes>>

RetryStateInit ==
    /\ IdleAgent
    /\ tool_monitor = NoToolMonitor
    /\ call_log = <<>>
    /\ IdleScratchpad
    /\ IdleAux

\* reply_internal starts: self.reset_retry_attempts()
StartReply(i) ==
    /\ retry_replies[i].pc = "idle"
    /\ attempts' = 0
    /\ retry_replies' = [retry_replies EXCEPT ![i] = [pc |-> "running", made |-> 0]]
    /\ UNCHANGED retryFrame

\* handle_retry_logic of a running reply restarts the loop: the retry manager counts the
\* attempt in the counter of the Agent
RetryReply(i) ==
    /\ retry_replies[i].pc = "running"
    /\ attempts < MaxReplyRetries
    /\ attempts' = attempts + 1
    /\ retry_replies' = [retry_replies EXCEPT ![i].made = @ + 1]
    /\ UNCHANGED retryFrame

\* the reply stream ends
EndReply(i) ==
    /\ retry_replies[i].pc = "running"
    /\ retry_replies' = [retry_replies EXCEPT ![i].pc = "ended"]
    /\ UNCHANGED <<retryFrame, attempts>>

RetryStateNext ==
    \/ \E i \in 1..2 : StartReply(i)
    \/ \E i \in 1..2 : RetryReply(i)
    \/ \E i \in 1..2 : EndReply(i)

SpecRetryState == RetryStateInit /\ [][RetryStateNext]_vars

\* ------------------------------------------------------------------ tool_stream
\* ToolStreamItem::Message(n) and ToolStreamItem::Result(r)
StreamMessage(n) == [kind |-> "Message", value |-> n]
StreamResult(r) == [kind |-> "Result", value |-> r]

streamFrame == <<replyVars, tool_monitor, call_log, todoVars, registryVars, gcp, vertex_model,
                 routed, mode_env, retry_replies, mutexes>>

\* tool_stream(rx, done) has been built: rx is open and empty, done has no result yet
ToolStreamInit ==
    /\ IdleAgent
    /\ tool_monitor = NoToolMonitor
    /\ call_log = <<>>
    /\ IdleScratchpad
    /\ frontend_tools = {}
    /\ extensions = {}
    /\ prompt_extras = <<>>
    /\ registry_result = RegistryResult("none", "", TRUE)
    /\ gcp = IdleGcp
    /\ vertex_model = VertexModel(<<>>)
    /\ routed = NoRouting
    /\ mode_env = NoModeEnv
    /\ retry_replies = NoReplies
    /\ mutexes = NoMutexes
    /\ stream = [NoStream EXCEPT !.pc = "select", !.rx_open = TRUE]

\* the tool sends a notification: it is queued in rx
NotificationArrives ==
    /\ stream.pc = "select"
    /\ stream.rx_open
    /\ stream.arrived < MaxNotifs
    /\ stream' = [stream EXCEPT !.rx = Append(@, stream.arrived + 1), !.arrived = @ + 1]
    /\ UNCHANGED streamFrame

\* the sender of rx is dropped: rx ends once its queue is empty
SenderDropped ==
    /\ stream.pc = "select"
    /\ stream.rx_open
    /\ stream' = [stream EXCEPT !.rx_open = FALSE]
    /\ UNCHANGED streamFrame

\* the tool call has its result: done will be Ready when it is polled
ResultAvailable ==
    /\ stream.pc = "select"
    /\ ~stream.done_ready
    /\ \E r \in {"Ok", "Err"} : stream' = [stream EXCEPT !.done_ready = TRUE, !.result = r]
    /\ UNCHANGED streamFrame

\* a select that yields a queued notification also after the Result
SelectMessage_after_done ==
    /\ stream.pc \in {"select", "ended"}
    /\ stream.rx # <<>>
    /\ stream' = [stream EXCEPT !.rx = Tail(@),
                                !.out = Append(@, StreamMessage(Head(stream.rx)))]
    /\ UNCHANGED streamFrame

\* select!: the branch `Some(msg) = rx.next()` is taken: Message(msg) is yielded and the
\* loop selects again
SelectMessage ==
    /\ stream.pc = "select"
    /\ stream.rx # <<>>
    /\ stream' = [stream EXCEPT !.rx = Tail(@),
                                !.out = Append(@, StreamMessage(Head(stream.rx)))]
    /\ UNCHANGED streamFrame

\* select!: rx.next() is None: the pattern fails, the branch is disabled and the select
\* goes on waiting for done
SelectRxEnded ==
    /\ stream.pc = "select"
    /\ stream.rx = <<>>
    /\ ~stream.rx_open
    /\ ~stream.rx_ended
    /\ stream' = [stream EXCEPT !.rx_ended = TRUE]
    /\ UNCHANGED streamFrame

\* select!: the branch `r = &mut done` is taken, done completes: Result(r) is yielded and
\* the loop breaks, what is queued in rx is dropped with it
SelectResult ==
    /\ stream.pc = "select"
    /\ stream.done_ready
    /\ stream' = [stream EXCEPT !.pc = "ended", !.dropped = stream.rx,
                                !.out = Append(@, StreamResult(stream.result))]
    /\ UNCHANGED streamFrame

ToolStreamNext ==
    \/ NotificationArrives
    \/ SenderDropped
    \/ ResultAvailable
    \/ SelectMessage
    \/ SelectRxEnded
    \/ SelectResult

\* a tool stream that is polled: tokio's select! picks among the ready branches at random,
\* so a done that stays Ready is taken
SpecToolStream ==
    /\ ToolStreamInit /\ [][ToolStreamNext]_vars
    /\ WF_vars(SelectResult)

\* ------------------------------------------------------------------ the Agent's mutexes
\* the positions at which the reply stream is suspended at a yield
YieldPositions == {"yield_final_output", "yield_event", "yield_notice", "yield_continuation",
                   "yield_final_message"}

\* the calls a consumer makes on the Agent between two events
ConsumerCalls == {"list_tools", "add_final_output_tool", "dispatch_final_output",
                  "dispatch_tool"}

\* the mutexes a call locks, in the order it locks them, and whether it holds the guard
\* while it locks the next one
\*   list_tools: `let sub_recipe_manager = ...lock().await` is held while final_output_tool
\*   is locked; dispatch_tool_call: the tool_monitor guard of the repetition check is
\*   released before the call is routed
Locks(call) ==
    CASE call = "list_tools" -> <<[mutex |-> "sub_recipe_manager", kept |-> TRUE],
                                  [mutex |-> "final_output_tool", kept |-> FALSE]>>
      [] call = "add_final_output_tool" -> <<[mutex |-> "final_output_tool", kept |-> TRUE]>>
      [] call = "dispatch_final_output" -> <<[mutex |-> "tool_monitor", kept |-> FALSE],
                                             [mutex |-> "final_output_tool", kept |-> FALSE]>>
      [] OTHER -> <<[mutex |-> "tool_monitor", kept |-> FALSE]>>

\* the first lock of the call that is held by another task, 0 if there is none
FirstBlocked(call, held) ==
    LET blocked == {i \in 1..Len(Locks(call)) : Locks(call)[i].mutex \in held}
    IN IF blocked = {} THEN 0 ELSE CHOOSE i \in blocked : \A j \in blocked : i <= j

\* the guards the call holds when it waits for its i-th lock
HeldBefore(call, i) == {Locks(call)[j].mutex : j \in {k \in 1..(i - 1) : Locks(call)[k].kept}}

\* the final-output tool after a call that completed
AfterCall(call, fot) ==
    IF call = "add_final_output_tool" THEN "Unset"
    ELSE IF call = "dispatch_final_output" /\ fot # "None" THEN "Set"
    ELSE fot

mutexFrame == <<replyVars, tool_monitor, call_log, todoVars, registryVars, gcp, vertex_model,
                routed, mode_env, retry_replies, stream>>

\* a reply at the top of its loop, of an agent with or without a final-output tool
MutexInit ==
    /\ IdleAgent
    /\ tool_monitor = NoToolMonitor
    /\ call_log = <<>>
    /\ IdleScratchpad
    /\ frontend_tools = {}
    /\ extensions = {}
    /\ prompt_extras = <<>>
    /\ registry_result = RegistryResult("none", "", TRUE)
    /\ gcp = IdleGcp
    /\ vertex_model = VertexModel(<<>>)
    /\ routed = NoRouting
    /\ mode_env = NoModeEnv
    /\ retry_replies = NoReplies
    /\ stream = NoStream
    /\ \E fot \in {"None", "Unset"} :
         mutexes = [NoMutexes EXCEPT !.reply = "top", !.final_output_tool = fot]

\* the stream is polled: the consumer is not inside a call
Polled == mutexes.consumer = "polling"

\* reply_internal, the top of the loop: `if let Some(t) = self.final_output_tool.lock()
\* .await.as_ref()` keeps the guard to the end of the if: the final output is yielded with
\* the guard held; else the turn is counted and, over the budget, the notice is yielded
ReplyLoopTop ==
    /\ Polled
    /\ mutexes.reply = "top"
    /\ IF FinalOutputReady(mutexes.final_output_tool)
       THEN mutexes' = [mutexes EXCEPT !.reply = "yield_final_output",
                                       !.held = {"final_output_tool"}]
       ELSE IF TurnBudgetExceeded(mutexes.turns_taken + 1, MaxTurns)
       THEN mutexes' = [mutexes EXCEPT !.reply = "yield_notice", !.turns_taken = @ + 1]
       ELSE mutexes' = [mutexes EXCEPT !.reply = "turn", !.turns_taken = @ + 1]
    /\ UNCHANGED mutexFrame

\* the turn yields an event (a provider message, a notification, the tool responses): the
\* guards of provider, tool_monitor and message_tool_response are temporaries of
\* statements that ended before the yield
ReplyYieldsEvent ==
    /\ Polled
    /\ mutexes.reply = "turn"
    /\ mutexes' = [mutexes EXCEPT !.reply = "yield_event"]
    /\ UNCHANGED mutexFrame

\* the turn dispatches the final-output tool: dispatch_tool_call locks final_output_tool
\* for the call and stores the output
ReplyDispatchesFinalOutput ==
    /\ Polled
    /\ mutexes.reply = "turn"
    /\ mutexes.final_output_tool = "Unset"
    /\ mutexes' = [mutexes EXCEPT !.final_output_tool = "Set"]
    /\ UNCHANGED mutexFrame

\* the turn ends: with tool requests the loop goes to its top, without them to the
\* final-output check after the stream
ReplyTurnEnds ==
    /\ Polled
    /\ mutexes.reply = "turn"
    /\ \E next \in {"top", "after_stream"} : mutexes' = [mutexes EXCEPT !.reply = next]
    /\ UNCHANGED mutexFrame

\* reply_internal after a turn without tool requests: `if let Some(t) =
\* self.final_output_tool.lock().await.as_ref()` keeps the guard to the end of the if: the
\* continuation message, or the final output, is yielded with the guard held
ReplyAfterStream ==
    /\ Polled
    /\ mutexes.reply = "after_stream"
    /\ mutexes' =
         IF mutexes.final_output_tool = "None" THEN [mutexes EXCEPT !.reply = "ended"]
         ELSE IF FinalOutputReady(mutexes.final_output_tool)
         THEN [mutexes EXCEPT !.reply = "yield_final_message", !.held = {"final_output_tool"}]
         ELSE [mutexes EXCEPT !.reply = "yield_continuation", !.held = {"final_output_tool"}]
    /\ UNCHANGED mutexFrame

\* the consumer polls the stream again: the reply resumes after its yield; the guard is
\* dropped where the if ends
ReplyResumes ==
    /\ Polled
    /\ mutexes.reply \in YieldPositions
    /\ mutexes' = [mutexes EXCEPT !.held = {},
                                  !.reply = CASE mutexes.reply = "yield_event" -> "turn"
                                              [] mutexes.reply = "yield_continuation" -> "top"
                                              [] OTHER -> "ended"]
    /\ UNCHANGED mutexFrame

\* between two events the consumer calls a method of the Agent and awaits it: the call
\* completes if none of its locks is held, else the consumer waits for the first held one;
\* the reply releases it only when it is polled again, which the waiting consumer does not
ConsumerCall ==
    /\ Polled
    /\ mutexes.reply \in YieldPositions
    /\ \E call \in ConsumerCalls :
         LET i == FirstBlocked(call, mutexes.held)
         IN mutexes' =
              IF i = 0
              THEN [mutexes EXCEPT !.last_call = call,
                                   !.final_output_tool = AfterCall(call, @)]
              ELSE [mutexes EXCEPT !.consumer = "blocked", !.call = call,
                                   !.consumer_held = HeldBefore(call, i),
                                   !.waits_for = Locks(call)[i].mutex]
    /\ UNCHANGED mutexFrame

MutexNext ==
    \/ ReplyLoopTop
    \/ ReplyYieldsEvent
    \/ ReplyDispatchesFinalOutput
    \/ ReplyTurnEnds
    \/ ReplyAfterStream
    \/ ReplyResumes
    \/ ConsumerCall

SpecMutexes == MutexInit /\ [][MutexNext]_vars

\* ------------------------------------------------------------------ properties
\* the indices of the tool responses of msg that answer the request id
ResponsesTo(msg, id) == {i \in 1..Len(msg) : msg[i].id = id}

\* C1 (as stated): with max_turns = N, no more than N assistant messages are emitted in
\* one reply
C1_AssistantMessagesWithinMaxTurns == n_asst <= max_turns

\* C1 (amended): max_turns = N bounds the provider turns of one reply, not its messages:
\* the provider stream is started at most N times and an assistant response is emitted only
\* within one of these N turns; a turn may emit several assistant messages and the
\* max-turns notice is one more
C1_ProviderTurnsWithinMaxTurns ==
    /\ provider_calls <= max_turns
    /\ emitted = MessageEvent("assistant", "response") => turns_taken <= max_turns

\* the budget is used up and the notice is the assistant message number N + 1
C1_Witness ==
    /\ emitted = MessageEvent("assistant", MAX_TURNS_NOTICE)
    /\ provider_calls = max_turns
    /\ n_asst > max_turns

\* C2 (as stated): once the cancellation token has fired, the reply emits no further
\* Message event
C2_NoMessageAfterCancel == [][cancelled => emitted'.type # "Message"]_vars

\* C3 (as stated): once the cancellation token has fired, dispatch_tool_call is not invoked
\* for any further tool call
C3_NoDispatchAfterCancel == [][cancelled => Len(dispatched') <= Len(dispatched)]_vars

\* every request of reqs has exactly one tool response in msg, and msg has no other
WellFormedPair(reqs, msg) ==
    /\ \A r \in Range(reqs) : Cardinality(ResponsesTo(msg, r.id)) = 1
    /\ \A i \in 1..Len(msg) : msg[i].id \in Ids(reqs)

\* C4 (as stated): every pair (assistant response, aggregated user message) appended to
\* the conversation is well-formed: each request id has exactly one tool response and no
\* response answers an id that was not requested
C4_AppendedPairsWellFormed ==
    pc = "aggregate" => WellFormedPair(response, message_tool_response)

\* C5 (as stated): after a provider error the provider is not called again in this reply
C5_NoProviderCallAfterError == [][provider_errored => provider_calls' = provider_calls]_vars

\* C6: in a turn that is not cancelled, every request the permission gate approves is
\* dispatched, and every Err outcome of a dispatched call (rejection by the monitor, missing
\* final-output tool, failure of the sink) is recorded exactly once as the Err tool response
\* of its request id when the aggregated message is emitted
C6_ToolErrorsRecorded ==
    (pc = "aggregate" /\ ~cancelled /\ goose_mode # "chat") =>
        /\ \A r \in Range(remaining_requests) :
              Classify(r, goose_mode) = "approved" => r.id \in Ids(dispatched)
        /\ \A i \in 1..Len(dispatched) :
              LET d == dispatched[i] IN
              /\ d.ready
              /\ ~d.result.ok =>
                    /\ Cardinality(ResponsesTo(message_tool_response, d.id)) = 1
                    /\ \A j \in ResponsesTo(message_tool_response, d.id) :
                          message_tool_response[j].result = d.result

\* of two calls of one response the second is rejected by the monitor, the first ran, and
\* the aggregated message is about to be emitted
C6_Witness ==
    /\ pc = "aggregate"
    /\ ~cancelled
    /\ Len(dispatched) = 2
    /\ dispatched[1].result.ok
    /\ dispatched[2].result = Err(REPETITION_ERROR)
    /\ Len(message_tool_response) = 2

\* C7 (as stated): in chat mode every tool request of a response, frontend or not, is
\* answered with the fixed chat-mode text and none is handed to the frontend
C7_ChatModeSkipsEveryRequest ==
    (goose_mode = "chat" /\ pc = "aggregate") =>
        \A r \in Range(response) :
            /\ ResponsesTo(message_tool_response, r.id) # {}
            /\ \A i \in ResponsesTo(message_tool_response, r.id) :
                  message_tool_response[i].result = Ok(CHAT_MODE_TOOL_SKIPPED_RESPONSE)

\* how many calls in a row, ending with call i of log, are identical
RECURSIVE RunLength(_, _)
RunLength(log, i) ==
    IF i = 1 \/ log[i - 1].call # log[i].call THEN 1 ELSE 1 + RunLength(log, i - 1)

\* C8: with a monitor configured with max_repetitions = K a call is rejected exactly when
\* it is more than the K-th of consecutive identical (name, arguments) calls, the count
\* restarting at 1 after a differing call; a rejected call reaches no sink and returns the
\* repetition error; without a limit no call is rejected
C8_MonitorRejectsAboveLimit ==
    \A i \in 1..Len(call_log) :
        LET limited == tool_monitor.set /\ tool_monitor.max # NoLimit
            rejected == call_log[i].sink = "rejected"
        IN /\ rejected <=> (limited /\ RunLength(call_log, i) > tool_monitor.max)
           /\ rejected => /\ ~call_log[i].outer_ok
                          /\ call_log[i].result = Err(REPETITION_ERROR)
           /\ ~rejected => call_log[i].sink = Sink(call_log[i].call.name, SubRecipeTools)

\* K = 2 and three identical calls: the third, and only the third, is rejected
C8_Witness ==
    /\ tool_monitor.set
    /\ tool_monitor.max = 2
    /\ Len(call_log) = 3
    /\ call_log[1].call = call_log[2].call
    /\ call_log[2].call = call_log[3].call
    /\ call_log[1].sink # "rejected"
    /\ call_log[2].sink # "rejected"
    /\ call_log[3].sink = "rejected"

\* the request was denied, by the stored policy or by the user's answer
Denied(r) ==
    \/ Classify(r, goose_mode) = "denied"
    \/ [id |-> r.id, permission |-> "Never"] \in posted

\* C9 (as stated): a denied request is never dispatched and its entry in the aggregated
\* message is a tool Err with the fixed declined payload
C9_DeniedAnsweredWithErr ==
    pc = "aggregate" =>
        \A r \in Range(remaining_requests) :
            Denied(r) =>
                /\ r.id \notin Ids(dispatched)
                /\ ResponsesTo(message_tool_response, r.id) # {}
                /\ \A i \in ResponsesTo(message_tool_response, r.id) :
                      message_tool_response[i].result = Err(DECLINED_RESPONSE)

\* a dispatched call that needed approval has a posted confirmation that allows it
DispatchedOnlyWhenAllowed ==
    \A i \in 1..Len(dispatched) :
        LET d == dispatched[i] IN
        Classify([id |-> d.id, call |-> d.call], goose_mode) = "needs_approval" =>
            \E p \in posted : p.id = d.id /\ Allows(p.permission)

\* the host has posted a confirmation for every request that waits for one
AllConfirmationsPosted ==
    /\ pc = "approval"
    /\ todo = <<>>
    /\ needs_approval # <<>>
    /\ \A r \in Range(needs_approval) : \E p \in posted : p.id = r.id

\* C10: a request that needs approval is dispatched only after a confirmation that allows
\* it was delivered through handle_confirmation, and once the host has posted a
\* confirmation for every waiting request, in any order, the reply goes on to emit the
\* aggregated tool-response message
C10_ApprovalGatesDispatch ==
    /\ []DispatchedOnlyWhenAllowed
    /\ AllConfirmationsPosted ~> (emitted = MessageEvent("user", "tool_response"))

\* two requests waited, the host allowed both, the second before the first, and they
\* were dispatched in the order of the confirmations
C10_Witness ==
    /\ pc = "aggregate"
    /\ Len(remaining_requests) = 2
    /\ Len(dispatched) = 2
    /\ dispatched[1].id = remaining_requests[2].id
    /\ dispatched[2].id = remaining_requests[1].id
    /\ \A p \in posted : Allows(p.permission)
    /\ Len(message_tool_response) = 2

\* the result the host posted for the awaited frontend request is in the channel
MatchingResultPosted ==
    /\ pc = "frontend_wait"
    /\ tool_result_ch # <<>>
    /\ Head(tool_result_ch).id = Head(todo).id

\* a step from the wait for a frontend result: no aggregated message, no provider call,
\* and the wait ends only by recording the result posted for the awaited request
FrontendWaitStep ==
    pc = "frontend_wait" =>
        /\ emitted' # MessageEvent("user", "tool_response")
        /\ provider_calls' = provider_calls
        /\ pc' # "frontend_wait" =>
              /\ MatchingResultPosted
              /\ message_tool_response' =
                    with_tool_response(message_tool_response, Head(todo).id,
                                       Head(tool_result_ch).result)

\* the wait for a frontend result begins with the placeholder message
FrontendPlaceholderStep ==
    (pc # "frontend_wait" /\ pc' = "frontend_wait") =>
        emitted' = MessageEvent("user", "frontend_request")

\* the aggregated message is about to be emitted with one posted result per frontend request
FrontendResultsAggregated ==
    pc = "aggregate" =>
        \A r \in Range(frontend_requests) :
            /\ Cardinality(ResponsesTo(message_tool_response, r.id)) = 1
            /\ \A i \in ResponsesTo(message_tool_response, r.id) :
                  message_tool_response[i].result \in FrontendResults

\* C11: a frontend tool request of a response makes the reply yield a placeholder message
\* and wait: it emits no aggregated tool-response message and starts no provider turn until
\* handle_tool_result was called with the id of the awaited request; once it was, the
\* posted result is recorded, the loop goes on, and the aggregated message carries the
\* posted result
C11_FrontendProxyWaitsForResult ==
    /\ [][FrontendPlaceholderStep /\ FrontendWaitStep]_vars
    /\ []FrontendResultsAggregated
    /\ MatchingResultPosted ~> (pc = "frontend")

\* the result of the second of two frontend requests was posted while the first was
\* awaited and dropped; both results were then posted and recorded
C11_Witness ==
    /\ pc = "aggregate"
    /\ Len(frontend_requests) = 2
    /\ Len(message_tool_response) = 2
    /\ \A i \in 1..2 : message_tool_response[i].id = frontend_requests[i].id
    /\ \A i \in 1..2 : message_tool_response[i].result = Ok("shown")

\* the reply has not reached reply_internal yet
BeforeReplyInternal == pc \in {"reply", "compacted"}

\* a step of a reply with respect to compaction: before reply_internal the only events are
\* the summarization message, first and only for a history above the threshold, and then
\* the history replacement; afterwards no history replacement is emitted
CompactionStep ==
    /\ (BeforeReplyInternal /\ emitted'.type # "None") =>
          \/ /\ pc = "reply"
             /\ should_compact(context_usage)
             /\ emitted' = MessageEvent("assistant", "summarization_requested")
             /\ pc' = "compacted"
          \/ /\ pc = "compacted"
             /\ emitted' = HistoryReplacedEvent
             /\ pc' = "loop"
    /\ emitted'.type = "HistoryReplaced" => pc = "compacted"
    /\ pc = "reply" => pc' \in {"reply", IF should_compact(context_usage) THEN "compacted" ELSE "loop"}
    /\ ~BeforeReplyInternal => pc' \notin {"reply", "compacted"}

\* before reply_internal no provider turn has begun and nothing but the summarization
\* message was emitted
NothingBeforeReplyInternal ==
    BeforeReplyInternal =>
        /\ provider_calls = 0
        /\ turns_taken = 0
        /\ n_asst = (IF pc = "compacted" THEN 1 ELSE 0)

\* C12: when auto-compaction triggers at the start of a reply the first event is the
\* summarization message, the second the history replacement, and every event of a turn
\* comes after it; when it does not trigger, no history replacement is emitted
C12_CompactionEventsFirst ==
    /\ [][CompactionStep]_vars
    /\ []NothingBeforeReplyInternal

\* the history was replaced as the second event of the reply
C12_Witness ==
    /\ emitted = HistoryReplacedEvent
    /\ pc = "loop"
    /\ n_asst = 1
    /\ provider_calls = 0

\* C13 (as stated): a ModelChange event is yielded before the first assistant Message of
\* the provider turn it belongs to, whichever chunk of the stream carries the usage
C13_ModelChangeBeforeFirstMessage ==
    [][emitted'.type = "ModelChange" => ~turn_has_message]_vars

\* a step with respect to notifications: a notification is yielded inside the merge loop,
\* for a tool stream of the current response whose result is not recorded yet; the
\* aggregated message is yielded when no tool stream is left
NotificationStep ==
    /\ emitted'.type = "McpNotification" =>
          /\ pc = "combined"
          /\ pc' = "combined"
          /\ emitted'.id \in Ids(tool_futures)
          /\ emitted'.id \in Ids(response)
          /\ emitted'.id \notin Ids(message_tool_response)
    /\ emitted' = MessageEvent("user", "tool_response") =>
          /\ pc = "aggregate"
          /\ tool_futures = <<>>
          /\ tool_futures' = <<>>

\* the tool streams are those of the current response, which has no aggregated message yet
StreamsOfCurrentResponse ==
    /\ Ids(tool_futures) \subseteq Ids(response)
    /\ tool_futures # <<>> => pc \in {"approval", "combined"}

\* C14: every McpNotification for a request id is yielded before the aggregated
\* tool-response message that holds the result of that id, and none after it
C14_NotificationsBeforeAggregate ==
    /\ [][NotificationStep]_vars
    /\ []StreamsOfCurrentResponse

\* a notification of one tool is yielded after the result of another was recorded
C14_Witness ==
    /\ emitted.type = "McpNotification"
    /\ Len(message_tool_response) = 1
    /\ Len(tool_futures) = 1
    /\ emitted.id = tool_futures[1].id

\* the final output is emitted by the step
EmitsFinalOutput == emitted' = MessageEvent("assistant", "final_output")

\* a step with respect to the final output: with the output produced no provider stream
\* is started; the step that emits the output ends the reply; an ended reply takes no step
FinalOutputStep ==
    /\ final_output_tool = "Set" => provider_calls' = provider_calls
    /\ EmitsFinalOutput => (final_output_tool = "Set" /\ pc' = "done")
    /\ pc # "done"

\* a reply that ended with the output produced, and was not cancelled, ended by emitting it
FinalOutputEmittedLast ==
    (pc = "done" /\ final_output_tool = "Set" /\ ~cancelled) =>
        emitted = MessageEvent("assistant", "final_output")

\* C15: once the final-output tool has produced its output, a reply that is not
\* cancelled emits it as an assistant Message, as its last event and exactly once, and
\* does not call the provider again
C15_FinalOutputEndsReply ==
    /\ [][FinalOutputStep]_vars
    /\ []FinalOutputEmittedLast

\* the reply ended by emitting the final output while turns were left
C15_Witness ==
    /\ pc = "done"
    /\ emitted = MessageEvent("assistant", "final_output")
    /\ final_output_tool = "Set"
    /\ turns_taken < max_turns

\* a step with respect to the turn budget: a provider stream is started only by a step
\* that counts a turn within the budget, and the step that would take one turn too many
\* emits the notice and ends the reply
TurnBudgetStep ==
    /\ provider_calls' # provider_calls =>
          /\ provider_calls' = provider_calls + 1
          /\ turns_taken' = turns_taken + 1
          /\ turns_taken' <= max_turns
    /\ (pc = "loop" /\ pc' # "loop" /\ ~cancelled /\ final_output_tool # "Set"
        /\ turns_taken >= max_turns) =>
          /\ emitted' = MessageEvent("assistant", MAX_TURNS_NOTICE)
          /\ pc' = "done"

\* the provider streams started are within the budget, and the notice is the last event
TurnBudgetKept ==
    /\ provider_calls <= turns_taken
    /\ provider_calls <= max_turns
    /\ emitted = MessageEvent("assistant", MAX_TURNS_NOTICE) =>
          /\ pc = "done"
          /\ provider_calls = max_turns
          /\ turns_taken = max_turns + 1

\* C16: the turn-budget test precedes every provider call: one reply starts the provider
\* stream at most max_turns times, restarts by the retry governor and continuations for the
\* final-output tool included, and when one more turn would exceed the budget the reply
\* emits the maximum-actions notice as its last event and ends
C16_TurnBudgetPrecedesProviderCall ==
    /\ [][TurnBudgetStep]_vars
    /\ []TurnBudgetKept

\* the budget of two turns was used up by a turn and the restart the retry governor made
C16_Witness ==
    /\ emitted = MessageEvent("assistant", MAX_TURNS_NOTICE)
    /\ max_turns = 2
    /\ attempts = 1
    /\ provider_calls = 2

\* a scratchpad call as the claim describes it: without a session an Err; a write above the
\* cap an Err that leaves the stored content alone; otherwise a write stores the given
\* content and a read returns the stored content
ScratchpadStep ==
    LET r == todo_result'
        cap == todo_max_chars_or_default(todo_max_chars)
    IN /\ ~session => ~r.ok
       /\ (r.name = TODO_WRITE_TOOL_NAME /\ Len(r.arg) > cap) =>
             (~r.ok /\ todo_content' = todo_content)
       /\ (r.name = TODO_WRITE_TOOL_NAME /\ r.ok) => todo_content' = r.arg
       /\ (r.name = TODO_READ_TOOL_NAME /\ r.ok) => r.content = todo_content

\* C17 (as stated): todo_read and todo_write return a tool Err without a session;
\* todo_write above the character cap returns a tool Err and leaves the stored content
\* unchanged; otherwise todo_write stores the given content and todo_read returns it
C17_ScratchpadNeedsSessionAndBudget == [][ScratchpadStep]_vars

\* the step in which the retry governor finds max_attempts reached, as the claim describes
\* it: the reply emits the failure notice as a Message and ends
RetryExhaustedStep ==
    (pc = "retry" /\ retry_result' = "MaxAttemptsReached") =>
       /\ emitted' = MessageEvent("assistant", RETRY_EXHAUSTED_NOTICE)
       /\ pc' = "done"

\* the retry governor restarts the loop one attempt at a time and at most max_attempts times
RetryRestartsBounded == attempts <= max_attempts

\* C18 (as stated): the retry governor restarts the reply loop at most max_attempts times in
\* one reply, and when max_attempts is reached with the success checks still failing the
\* reply emits a failure notice Message, no error item, and ends
C18_RetryBoundedWithFailureNotice ==
    /\ []RetryRestartsBounded
    /\ [][RetryExhaustedStep]_vars

\* the gate and the handler have run for the response of the turn
GateHasRun == pc \in {"approval", "combined", "aggregate"}

\* the parsed requests of the response that are not for frontend tools
ParsedRequests == {r \in Range(remaining_requests) : r.call # PARSE_ERR}

NeverAllowRequests == {r \in ParsedRequests : StoredPolicy(r.call) = "NeverAllow"}

\* a request for a NeverAllow tool is not dispatched, does not wait for approval and, once
\* the gate has run, is answered with the declined text
NeverAllowDenied ==
    \A r \in NeverAllowRequests :
        /\ r.id \notin Ids(dispatched)
        /\ r.id \notin Ids(needs_approval)
        /\ GateHasRun =>
              /\ Cardinality(ResponsesTo(message_tool_response, r.id)) = 1
              /\ \A i \in ResponsesTo(message_tool_response, r.id) :
                    message_tool_response[i].result = Ok(DECLINED_RESPONSE)

RoutedTools ==
    {t \in UNION {cfg.tools : cfg \in ExtensionConfigs} :
        \/ Sink(t, SubRecipeTools) = "extension_manager" /\ t \in get_prefixed_tools(extensions)
        \/ is_frontend_tool(frontend_tools, t)}

\* C21 (as stated): after remove_extension(name) returned Ok none of the extension's tools
\* is registered: is_frontend_tool is false for them, list_tools does not return them and
\* dispatch_tool_call does not route to them, for a Frontend extension as for any other
C21_RemoveExtensionRemovesTools ==
    (registry_result.op = "remove" /\ registry_result.ok) =>
        \A t \in ToolsOf(registry_result.name) :
            /\ ~is_frontend_tool(frontend_tools, t)
            /\ t \notin list_tools(extensions, final_output_tool, SubRecipeTools, FALSE)
            /\ t \notin RoutedTools

\* the final-output tool is listed
FinalOutputListed ==
    FINAL_OUTPUT_TOOL_NAME \in list_tools(extensions, final_output_tool, SubRecipeTools, FALSE)

\* the registry with respect to the built-in tools: the todo tools are listed, and the
\* final-output tool is listed, with its instructions in the system prompt, once it was added
BuiltinToolsListed ==
    /\ \A supports_resources \in BOOLEAN :
          {TODO_READ_TOOL_NAME, TODO_WRITE_TOOL_NAME} \subseteq
              list_tools(extensions, final_output_tool, SubRecipeTools, supports_resources)
    /\ final_output_tool = "None" => ~FinalOutputListed
    /\ final_output_tool # "None" =>
          /\ FinalOutputListed
          /\ FINAL_OUTPUT_SYSTEM_PROMPT \in Range(build_system_prompt(prompt_extras))

\* add_final_output_tool registers the tool and no other operation unregisters it
FinalOutputToolStep ==
    /\ registry_result'.op = "add_final_output_tool" => final_output_tool' # "None"
    /\ final_output_tool # "None" => final_output_tool' # "None"
    /\ (final_output_tool = "None" /\ registry_result'.op # "add_final_output_tool") =>
          final_output_tool' = "None"

\* C26: in every state of an agent list_tools(None) contains todo_read and todo_write; it
\* contains the final-output tool in every state after add_final_output_tool was called
\* and in no state before; and after add_final_output_tool the built system prompt
\* contains the final-output tool's system prompt
C26_BuiltinToolsAlwaysListed ==
    /\ []BuiltinToolsListed
    /\ [][FinalOutputToolStep]_vars

\* the final-output tool was added after an extension and an instruction of the host
C26_Witness ==
    /\ final_output_tool = "Unset"
    /\ registry_result.op = "add_final_output_tool"
    /\ extensions # {}
    /\ prompt_extras = <<HOST_INSTRUCTION, FINAL_OUTPUT_SYSTEM_PROMPT>>

\* C22: every reply terminates: with finite provider streams, tool streams that complete
\* and a host that answers every confirmation and frontend request, the reply stream
\* eventually ends
C22_ReplyTerminates == <>(pc = "done")

\* a reply ended because the model stopped asking for tools, after a turn with a tool call
C22_Witness ==
    /\ pc = "done"
    /\ ~cancelled
    /\ ~provider_errored
    /\ final_output_tool = "None"
    /\ turns_taken = 2
    /\ turns_taken <= max_turns
    /\ retry_result = "Skipped"

\* the backoff waits of the call made for a status
WaitsFor(waits, status) == Cardinality({i \in 1..Len(waits) : waits[i][1] = status})
RetriedStatuses == {STATUS_TOO_MANY_REQUESTS, STATUS_API_OVERLOADED}

\* a pass of post_with_location that got a response and goes on to another request: the
\* status was 429 or 529 and the wait is the backoff for that status's attempt number
GcpRetryStep ==
    (gcp.pc = "loop" /\ gcp'.pc = "loop") =>
        /\ gcp'.sent = gcp.sent + 1
        /\ gcp'.last_status \in RetriedStatuses
        /\ gcp'.waits = Append(gcp.waits, <<gcp'.last_status,
                                            WaitsFor(gcp.waits, gcp'.last_status) + 1>>)

\* a pass that got a 429 or 529 and returns: the retries for that status were used up and
\* the call returns RateLimitExceeded
GcpExhaustedStep ==
    (gcp.pc = "loop" /\ gcp'.pc = "returned" /\ gcp'.cause = "status"
     /\ gcp'.last_status \in RetriedStatuses) =>
        /\ WaitsFor(gcp.waits, gcp'.last_status) = gcp.max_retries
        /\ gcp'.result = "RateLimitExceeded"

\* a pass that got another status returns with that response, whatever its body
GcpOtherStatusStep ==
    (gcp.pc = "loop" /\ gcp'.pc = "returned" /\ gcp'.cause = "status"
     /\ gcp'.last_status \notin RetriedStatuses) =>
        /\ gcp'.sent = gcp.sent + 1
        /\ gcp'.result =
              IF gcp'.last_status = STATUS_OK THEN "Ok"
              ELSE IF gcp'.last_status \in {STATUS_UNAUTHORIZED, STATUS_FORBIDDEN}
              THEN "Authentication"
              ELSE "RequestFailed"

\* a pass that got another status returns with that response: by its status when the body
\* is JSON, RequestFailed when it is not
GcpOtherStatusJsonStep ==
    (gcp.pc = "loop" /\ gcp'.pc = "returned" /\ gcp'.cause = "status"
     /\ gcp'.last_status \notin RetriedStatuses) =>
        /\ gcp'.sent = gcp.sent + 1
        /\ gcp'.result =
              IF ~gcp'.last_body_json THEN "RequestFailed"
              ELSE IF gcp'.last_status = STATUS_OK THEN "Ok"
              ELSE IF gcp'.last_status \in {STATUS_UNAUTHORIZED, STATUS_FORBIDDEN}
              THEN "Authentication"
              ELSE "RequestFailed"

\* no more than max_retries retries are made for a status
GcpRetriesBounded ==
    \A status \in RetriedStatuses : WaitsFor(gcp.waits, status) <= gcp.max_retries

\* C23 (as stated): post_with_location retries only on 429 and 529, after the backoff for
\* that status's attempt number; any other status ends the call with that response (200
\* Ok, 401/403 Authentication, anything else RequestFailed); exhausted retries give
\* RateLimitExceeded
C23_RetriesOnlyOn429And529 ==
    /\ [][GcpRetryStep /\ GcpExhaustedStep /\ GcpOtherStatusStep]_vars
    /\ []GcpRetriesBounded

\* C23 (amended): as stated, except that a response with another status whose body is not
\* JSON ends the call with RequestFailed, also when the status is 200, 401 or 403
C23_RetriesOnlyOn429And529JsonBody ==
    /\ [][GcpRetryStep /\ GcpExhaustedStep /\ GcpOtherStatusJsonStep]_vars
    /\ []GcpRetriesBounded

\* with max_retries = 2 the call was retried twice for 429 and once for 529 and returned
\* RateLimitExceeded on the third 429
C23_Witness ==
    /\ gcp.pc = "returned"
    /\ gcp.max_retries = 2
    /\ gcp.result = "RateLimitExceeded"
    /\ gcp.last_status = STATUS_TOO_MANY_REQUESTS
    /\ gcp.waits = <<<<STATUS_TOO_MANY_REQUESTS, 1>>, <<STATUS_API_OVERLOADED, 1>>,
                     <<STATUS_TOO_MANY_REQUESTS, 2>>>>
    /\ gcp.sent = 4

\* an authentication failure in post_with_location: a 401 or 403 response, or no auth
\* header, returns Authentication
GcpAuthFailureStep ==
    (gcp.pc = "loop" /\ gcp'.pc = "returned") =>
        /\ (gcp'.cause = "status" /\ gcp'.last_status \in {STATUS_UNAUTHORIZED, STATUS_FORBIDDEN})
              => gcp'.result = "Authentication"
        /\ gcp'.cause = "auth_header" => (gcp'.result = "Authentication" /\ gcp'.sent = gcp.sent)

\* post does not repeat, at the model's known location, a request that failed to
\* authenticate
GcpAuthFailureNotRepeated ==
    gcp.call = 2 =>
        /\ gcp.first_result # "Authentication"
        /\ gcp.first_status \notin {STATUS_UNAUTHORIZED, STATUS_FORBIDDEN}

\* C24 (as stated): authentication failures are surfaced and never retried: a 401/403
\* response or a failure to obtain an auth token makes post_with_location return
\* Authentication without a further request, and post does not repeat the request at the
\* model's known location after it
C24_AuthenticationNeverRetried ==
    /\ [][GcpAuthFailureStep]_vars
    /\ []GcpAuthFailureNotRepeated

\* the result of try_from is there: an id is accepted exactly when it starts with claude-,
\* gemini- or qwen
ModelIdAccepted ==
    vertex_model.pc # "id" =>
        (vertex_model.parsed.ok <=>
            \/ starts_with(vertex_model.id, <<"claude", "-">>)
            \/ starts_with(vertex_model.id, <<"gemini", "-">>)
            \/ starts_with(vertex_model.id, <<"qwen">>))

\* the printing of the parsed model is there: it is the id, without the prefix qwen/ if
\* the id has it
ModelIdRoundTrip ==
    vertex_model.pc = "printed" =>
        vertex_model.printed =
            IF starts_with(vertex_model.id, <<"qwen", "/">>)
            THEN SubSeq(vertex_model.id, 3, Len(vertex_model.id))
            ELSE vertex_model.id

\* C25: parsing and printing of Vertex AI model ids round-trip: try_from(s).to_string() is
\* s for every accepted id that does not start with qwen/, s without that prefix for one
\* that does, and an id that starts with none of claude-, gemini-, qwen is rejected
C25_ModelIdRoundTrip == ModelIdAccepted /\ ModelIdRoundTrip

\* the known Qwen id was parsed with the prefix qwen/ and printed without it
C25_Witness ==
    /\ vertex_model.pc = "printed"
    /\ vertex_model.id = <<"qwen", "/", "qwen", "3-coder-480b-a35b-instruct-maas">>
    /\ vertex_model.parsed.version = "Coder480BInstructMaas"
    /\ vertex_model.printed = <<"qwen", "3-coder-480b-a35b-instruct-maas">>

\* the remaining requests of the current response are still to be permission-checked
BeforeGate == pc \in {"frontend", "frontend_wait"}

\* the placeholder of a frontend request is yielded by the step
YieldsPlaceholder == emitted' = MessageEvent("user", "frontend_request")

\* a step of the frontend sub-stream and the step that leaves it: a placeholder is yielded
\* for the first request not yet handled, before the gate and with nothing dispatched; a
\* request counts as handled only after its placeholder; the gate runs only when every
\* frontend request is handled
PlaceholderBeforeGateStep ==
    /\ YieldsPlaceholder =>
          /\ pc = "frontend" /\ pc' = "frontend_wait"
          /\ todo # <<>> /\ todo' = todo
          /\ dispatched' = <<>> /\ tool_futures' = <<>>
    /\ (BeforeGate /\ todo' # todo /\ BeforeGate') =>
          /\ pc = "frontend_wait"
          /\ todo' = Tail(todo)
    /\ (pc # "frontend_wait" /\ pc' = "frontend_wait") => YieldsPlaceholder
    /\ (BeforeGate /\ ~BeforeGate') =>
          /\ pc = "frontend" /\ todo = <<>>
          /\ Len(message_tool_response) = Len(frontend_requests)

\* before the gate the requests still to announce are the last of the frontend requests,
\* and nothing of the response is dispatched
NothingDispatchedBeforeGate ==
    BeforeGate =>
        /\ dispatched = <<>>
        /\ tool_futures = <<>>
        /\ needs_approval = <<>>
        /\ Len(todo) <= Len(frontend_requests)
        /\ todo = SubSeq(frontend_requests, Len(frontend_requests) - Len(todo) + 1,
                         Len(frontend_requests))

\* C27: within a response that has frontend and other tool requests, the placeholder
\* message of every frontend request is yielded before any of the other requests is
\* permission-checked or dispatched
C27_PlaceholdersBeforePermissionCheck ==
    /\ [][PlaceholderBeforeGateStep]_vars
    /\ []NothingDispatchedBeforeGate

\* a response with a frontend request and another request: the placeholder was yielded and
\* answered, then the other request was dispatched
C27_Witness ==
    /\ pc \in {"approval", "combined"}
    /\ frontend_requests # <<>>
    /\ remaining_requests # <<>>
    /\ dispatched # <<>>
    /\ Len(message_tool_response) >= Len(frontend_requests)
    /\ \A i \in 1..Len(frontend_requests) :
          message_tool_response[i].id = frontend_requests[i].id

\* the step that leaves the top of the loop: a cancelled reply ends without an event; else
\* a reply with a final output emits it and ends; else a reply out of turns emits the
\* notice and ends; else the provider is called
ExitPriorityStep ==
    (pc = "loop" /\ pc' # "loop") =>
        IF cancelled
        THEN /\ emitted' = NoEvent
             /\ pc' = "done"
             /\ provider_calls' = provider_calls
        ELSE IF final_output_tool = "Set"
        THEN /\ emitted' = MessageEvent("assistant", "final_output")
             /\ pc' = "done"
             /\ provider_calls' = provider_calls
        ELSE IF turns_taken >= max_turns
        THEN /\ emitted' = MessageEvent("assistant", MAX_TURNS_NOTICE)
             /\ pc' = "done"
             /\ provider_calls' = provider_calls
        ELSE /\ emitted' = NoEvent
             /\ pc' = "stream"
             /\ provider_calls' = provider_calls + 1

\* the notice is never the event of a reply that has a final output
NoNoticeWithFinalOutput ==
    emitted = MessageEvent("assistant", MAX_TURNS_NOTICE) => final_output_tool # "Set"

\* C28: at the start of every loop iteration the exit tests are made in the order
\* cancellation, final output, turn budget: a cancelled reply emits nothing even with a
\* final output; a final output is emitted even when the turn budget is used up, and the
\* maximum-actions notice is then not emitted
C28_ExitConditionsInPriorityOrder ==
    /\ [][ExitPriorityStep]_vars
    /\ []NoNoticeWithFinalOutput

\* the final output was produced in the last turn of the budget and emitted in place of
\* the notice
C28_Witness ==
    /\ pc = "done"
    /\ ~cancelled
    /\ final_output_tool = "Set"
    /\ turns_taken = max_turns
    /\ emitted = MessageEvent("assistant", "final_output")

\* the reply was cancelled with the final output produced and ended without an event
C28_WitnessCancelled ==
    /\ pc = "done"
    /\ cancelled
    /\ final_output_tool = "Set"
    /\ emitted = NoEvent

\* the sink of a name by the routing order of the specification's table
TableSink(name, registered, sub_recipe_tools) ==
    IF name = PLATFORM_MANAGE_SCHEDULE_TOOL_NAME THEN "scheduler"
    ELSE IF name = PLATFORM_MANAGE_EXTENSIONS_TOOL_NAME THEN "manage_extensions"
    ELSE IF name = FINAL_OUTPUT_TOOL_NAME THEN "final_output"
    ELSE IF name = SUBAGENT_EXECUTE_TASK_TOOL_NAME THEN "subagent"
    ELSE IF name = DYNAMIC_TASK_TOOL_NAME_PREFIX THEN "dynamic_task"
    ELSE IF name = PLATFORM_READ_RESOURCE_TOOL_NAME THEN "read_resource"
    ELSE IF name = PLATFORM_LIST_RESOURCES_TOOL_NAME THEN "list_resources"
    ELSE IF name = PLATFORM_SEARCH_AVAILABLE_EXTENSIONS_TOOL_NAME THEN "search_extensions"
    ELSE IF name \in registered THEN "frontend"
    ELSE IF name = TODO_READ_TOOL_NAME THEN "todo_read"
    ELSE IF name = TODO_WRITE_TOOL_NAME THEN "todo_write"
    ELSE IF name = ROUTER_LLM_SEARCH_TOOL_NAME THEN "router_search"
    ELSE IF name \in sub_recipe_tools THEN "sub_recipe"
    ELSE "extension_manager"

\* C29: dispatch_tool_call hands a call to the sink of the first rule of the routing order
\* that matches its name: the platform tools, the frontend-tools set, the scratchpad tools
\* and the router search before the sub-recipe tools, the extension manager last; a
\* sub-recipe tool that is also a frontend tool goes to the frontend sink
C29_RoutingOrderFirstMatch ==
    routed.pc = "returned" =>
        routed.sink = TableSink(routed.name, routed.frontend_at_call,
                                routed.sub_recipe_at_call)

\* C30: the result of every sink dispatch_tool_call reaches, the scheduler, the
\* extension-management tool and the final-output tool included, is processed by the
\* large-response handler before it is returned
C30_EveryResultLargeResponseHandled ==
    (routed.pc = "returned" /\ routed.sink # "rejected") => routed.large_response_handled

\* post_with_location has returned to post
GcpReturned == gcp.pc = "returned"

\* the step post takes when post_with_location has returned: a second call is started
\* only after the first, at a configured location that is not the known one, when the
\* first returned RequestFailed, and then it is started; otherwise the result is returned
\* as it is and no request is made
GcpFallbackStep ==
    GcpReturned =>
        IF gcp.call = 1 /\ ~gcp.at_known_location /\ gcp.result = "RequestFailed"
        THEN /\ gcp'.call = 2
             /\ gcp'.pc \in {"loop", "returned"}
             /\ gcp'.first_result = "RequestFailed"
             /\ gcp'.sent = 0
        ELSE /\ gcp'.pc = "done"
             /\ gcp'.call = gcp.call
             /\ gcp'.result = gcp.result
             /\ gcp'.sent = gcp.sent

\* post_with_location is called once or twice, and a second time only at a location that
\* differs from the configured one after a RequestFailed
GcpFallbackOnce ==
    /\ gcp.call \in {1, 2}
    /\ gcp.call = 2 => (~gcp.at_known_location /\ gcp.first_result = "RequestFailed")
    /\ (gcp.pc = "done" /\ gcp.call = 1) =>
          (gcp.at_known_location \/ gcp.result # "RequestFailed")

\* C33: post falls back to the model's known location at most once: it calls
\* post_with_location a second time only when the configured location is not the known
\* location and the first call returned RequestFailed; when the first call succeeded,
\* returned another error, or the configured location is the known one, the first result
\* is returned unchanged and no second sequence of requests is made
C33_FallbackToKnownLocationOnce ==
    /\ [][GcpFallbackStep]_vars
    /\ []GcpFallbackOnce

\* the first call failed with a 500 at the configured location and the call at the known
\* location succeeded
C33_Witness ==
    /\ gcp.pc = "done"
    /\ gcp.call = 2
    /\ ~gcp.at_known_location
    /\ gcp.first_result = "RequestFailed"
    /\ gcp.first_status = STATUS_INTERNAL_SERVER_ERROR
    /\ gcp.result = "Ok"

\* the guard at the top of the loop of post_with_location
GcpLoopTopGuard ==
    /\ gcp.rate_limit_attempts > gcp.max_retries
    /\ gcp.overloaded_attempts > gcp.max_retries

\* the requests and the counters of one post_with_location: no more than
\* 2 * max_retries + 1 requests; every request but the one that got another status is
\* counted by the counter of its status; no counter above max_retries + 1; in the loop no
\* counter above max_retries, so the guard at its top is false
GcpRequestsBounded ==
    /\ gcp.sent <= 2 * gcp.max_retries + 1
    /\ gcp.rate_limit_attempts <= gcp.max_retries + 1
    /\ gcp.overloaded_attempts <= gcp.max_retries + 1
    /\ gcp.rate_limit_attempts + gcp.overloaded_attempts \in {gcp.sent - 1, gcp.sent}
    /\ gcp.pc = "loop" =>
          /\ gcp.rate_limit_attempts <= gcp.max_retries
          /\ gcp.overloaded_attempts <= gcp.max_retries
          /\ gcp.rate_limit_attempts + gcp.overloaded_attempts = gcp.sent
          /\ ~GcpLoopTopGuard

\* a pass of the loop counts a 429 and a 529 each in its own counter, and returns when the
\* counter it incremented is above max_retries
GcpCounterStep ==
    (gcp.pc = "loop" /\ gcp'.sent = gcp.sent + 1) =>
        /\ gcp'.rate_limit_attempts = gcp.rate_limit_attempts +
              (IF gcp'.last_status = STATUS_TOO_MANY_REQUESTS THEN 1 ELSE 0)
        /\ gcp'.overloaded_attempts = gcp.overloaded_attempts +
              (IF gcp'.last_status = STATUS_API_OVERLOADED THEN 1 ELSE 0)
        /\ (gcp'.rate_limit_attempts > gcp.max_retries
            \/ gcp'.overloaded_attempts > gcp.max_retries) => gcp'.pc = "returned"
        /\ gcp'.cause # "exhausted"

\* C34: for every sequence of responses post_with_location ends after at most
\* 2 * max_retries + 1 requests: 429 and 529 are counted by separate counters, no counter
\* exceeds max_retries + 1, the call returns as soon as a counter exceeds max_retries, and
\* the guard at the top of the loop is never true
C34_RequestsBoundedByTwiceMaxRetries ==
    /\ [][GcpCounterStep]_vars
    /\ []GcpRequestsBounded

\* with max_retries = 2 the call made five requests: two 429 and two 529 that were
\* retried, and a third 529 that ended it
C34_Witness ==
    /\ gcp.pc = "returned"
    /\ gcp.max_retries = 2
    /\ gcp.sent = 5
    /\ gcp.rate_limit_attempts = 2
    /\ gcp.overloaded_attempts = 3
    /\ gcp.cause = "status"

\* a step of the merge loop: any of the streams still open may deliver next; a result is
\* appended under the request id of the stream it came from, which is then closed, and a
\* notification is passed on under the id of its stream
MergeStep ==
    pc = "combined" =>
        /\ message_tool_response' # message_tool_response =>
              \E i \in 1..Len(tool_futures) :
                 /\ tool_futures' = RemoveAt(tool_futures, i)
                 /\ Len(message_tool_response') = Len(message_tool_response) + 1
                 /\ SubSeq(message_tool_response', 1, Len(message_tool_response)) =
                       message_tool_response
                 /\ message_tool_response'[Len(message_tool_response')].id = tool_futures[i].id
                 /\ message_tool_response'[Len(message_tool_response')].result
                       \in ToolOutcomes(tool_futures[i])
        /\ emitted'.type = "McpNotification" =>
              \E i \in 1..Len(tool_futures) : emitted' = McpNotificationEvent(tool_futures[i].id)

\* the streams of the response all delivered their result: every dispatched request has
\* one entry in the aggregated message, which carries the result of its own call
ResultsKeyedByRequestId ==
    (pc = "aggregate" /\ ~cancelled /\ goose_mode # "chat") =>
        \A i \in 1..Len(dispatched) :
            /\ Cardinality(ResponsesTo(message_tool_response, dispatched[i].id)) = 1
            /\ \A j \in ResponsesTo(message_tool_response, dispatched[i].id) :
                  message_tool_response[j].result = dispatched[i].result

\* C31: the tool executions of one response run concurrently and their notifications
\* interleave by arrival; in whatever order the tool streams complete, each result is
\* recorded in the aggregated tool-response message under the request id of the call that
\* produced it, with exactly one entry per dispatched request
C31_ResultsKeyedByRequestId ==
    /\ [][MergeStep]_vars
    /\ []ResultsKeyedByRequestId

\* two calls were dispatched; the second completed first, with an error, and the first
\* then succeeded: the aggregated message has the two results in the order of completion
C31_Witness ==
    /\ pc = "aggregate"
    /\ ~cancelled
    /\ Len(dispatched) = 2
    /\ Len(message_tool_response) = 2
    /\ message_tool_response[1] = [id |-> dispatched[2].id, result |-> Err("tool failed")]
    /\ message_tool_response[2] = [id |-> dispatched[1].id, result |-> Ok("tool output")]

\* the history the next provider call is given after the continuation message was emitted
\* ends with that message
ContinuationInHistory ==
    (pc = "loop" /\ emitted = MessageEvent("user", FINAL_OUTPUT_CONTINUATION_MESSAGE)) =>
        messages[Len(messages)] = Shape("user", FINAL_OUTPUT_CONTINUATION_MESSAGE)

\* the step that ends a provider turn without a tool request while the final-output tool
\* waits for its output: the continuation message is emitted and the loop goes on
ContinuationStep ==
    (pc = "after_stream" /\ pc' # pc /\ ~added_message /\ final_output_tool = "Unset") =>
        /\ emitted' = MessageEvent("user", FINAL_OUTPUT_CONTINUATION_MESSAGE)
        /\ pc' = "loop"

\* C35 (as stated): when a final-output tool is configured and has produced no output and
\* a provider turn ends without a tool request, the reply emits the user-role continuation
\* message, and the history of the next provider call ends with that message
C35_ContinuationMessageInHistory ==
    /\ [][ContinuationStep]_vars
    /\ []ContinuationInHistory

\* the step that sets tools_updated, which makes the reply re-run prepare_tools_and_prompt
\* after the turn: the mode is not chat, the response had an approved
\* extension-management request and every such request returned Ok
ToolsUpdatedStep ==
    (~tools_updated /\ tools_updated') =>
        /\ goose_mode # "chat"
        /\ \E i \in 1..Len(dispatched) :
              dispatched[i].call = PLATFORM_MANAGE_EXTENSIONS_TOOL_NAME
        /\ \A i \in 1..Len(dispatched) :
              dispatched[i].call = PLATFORM_MANAGE_EXTENSIONS_TOOL_NAME =>
                  dispatched[i].result.ok

\* C38 (as stated): after a provider turn the tool list and the system prompt are rebuilt
\* only if the turn had an approved extension-management request and every such request
\* returned Ok; a turn without an extension-management request, or in chat mode, leaves
\* them as they are
C38_ToolsRebuiltOnlyAfterExtensionChange == [][ToolsUpdatedStep]_vars

\* an add_extension that returned an error left the extensions held by the extension
\* manager and the frontend tools as they were
FailedAddStep ==
    (registry_result'.op = "add" /\ ~registry_result'.ok) =>
        /\ extensions' = extensions
        /\ frontend_tools' = frontend_tools

\* C37 (as stated): adding an extension is atomic with respect to failure: when
\* add_extension returns an error the agent's registered extensions and frontend tools are
\* the same as before the call, also when what failed is the router tool-index update that
\* runs after the extension manager accepted the extension
C37_AddExtensionAtomicOnFailure == [][FailedAddStep]_vars

\* the mode of a running reply is the one its session and the configuration at its start
\* give: chat for foreground, auto for background, else GOOSE_MODE, auto when it is unset;
\* and it is the mode the reply reads
ModeFromSessionAndConfig ==
    mode_env.pc = "replying" =>
        /\ goose_mode =
              IF mode_env.execution_mode = "foreground" THEN "chat"
              ELSE IF mode_env.execution_mode = "background" THEN "auto"
              ELSE IF mode_env.config_at_start = "unset" THEN "auto"
              ELSE mode_env.config_at_start
        /\ mode_env.used \in {"", goose_mode}

\* the mode does not change while the reply runs
ModeFixedStep == (mode_env.pc = "replying" /\ mode_env'.pc # "idle") => goose_mode' = goose_mode

\* C40: the mode of a reply is fixed when the reply starts and is a function of the session
\* and the configuration: execution_mode foreground gives chat, background gives auto, any
\* other or no execution_mode gives the configured GOOSE_MODE, auto when it is unset; it
\* does not change during the reply even if the configuration changes
C40_ModeFixedAtReplyStart ==
    /\ [][ModeFixedStep]_vars
    /\ []ModeFromSessionAndConfig

\* a reply of a session with another execution_mode started with GOOSE_MODE = approve; the
\* configuration was changed to chat, and the reply read approve
C40_Witness ==
    /\ mode_env.pc = "replying"
    /\ mode_env.execution_mode = "other"
    /\ mode_env.config_at_start = "approve"
    /\ mode_env.config_mode = "chat"
    /\ mode_env.used = "approve"

\* C32 (as stated): retry state is per reply: the attempts counter is 0 when a reply
\* starts, and the attempts made in one reply are never counted in, nor reset by, another
\* reply on the same Agent, a second reply started while the first is running included:
\* the counter a running reply works with holds the retries that reply made
C32_RetryStatePerReply ==
    \A i \in 1..2 : retry_replies[i].pc = "running" => attempts = retry_replies[i].made

\* the Results the stream has yielded
StreamResultsAt == {i \in 1..Len(stream.out) : stream.out[i].kind = "Result"}

\* at most one Result, the last item, yielded exactly when the stream has ended, carrying
\* the result of done; the Messages are the notifications in the order they were sent; what
\* was queued when done completed is not among them
ToolStreamShape ==
    /\ Cardinality(StreamResultsAt) <= 1
    /\ StreamResultsAt \subseteq {Len(stream.out)}
    /\ (stream.pc = "ended") = (StreamResultsAt # {})
    /\ stream.pc = "ended" => stream.out[Len(stream.out)] = StreamResult(stream.result)
    /\ \A i \in 1..Len(stream.out) :
         stream.out[i].kind = "Message" => stream.out[i].value = i
    /\ \A i \in 1..Len(stream.dropped) : \A j \in 1..Len(stream.out) :
         stream.out[j] # StreamMessage(stream.dropped[i])

\* nothing is yielded after the Result
ToolStreamEndedStep == stream.pc = "ended" => stream'.out = stream.out

C39_WitnessRxEndedFirst ==
    /\ stream.pc = "ended"
    /\ stream.rx_ended

\* C36 (as stated): whenever the reply stream is suspended at a yield the reply holds none
\* of the Agent's mutexes, so that a consumer that calls list_tools, add_final_output_tool
\* or dispatch_tool_call between two events always completes: the consumer never waits for
\* a mutex the suspended reply holds
C36_NoMutexHeldAtYield ==
    /\ mutexes.reply \in YieldPositions => mutexes.held = {}
    /\ mutexes.consumer # "blocked"

====
